---- MODULE Spec2Model ----
(***************************************************************************)
(* A model of the trading core of the HFT trading system:                  *)
(*   - RiskManager.calculate_position_size and its helpers                 *)
(*     (src/modules/risk_manager.py),                                      *)
(*   - RiskManager.adjust_stop_loss_for_trailing with the stop order kept  *)
(*     by the exchange (src/modules/risk_manager.py,                       *)
(*     src/modules/binance_client.py),                                     *)
(*   - BinanceClient.place_dual_take_profit_orders with the take-profit    *)
(*     orders kept by the exchange (src/modules/binance_client.py),        *)
(*   - PurePriceActionStrategy.get_signal, its scorer and its pattern      *)
(*     detector (src/modules/strategies.py).                               *)
(*                                                                         *)
(* Numbers.  The code computes with floats; the model computes with exact  *)
(* rationals held as integers over a fixed unit:                           *)
(*   quantities  in 1/QtyScale of a coin   (QtyScale = 1000),              *)
(*   stop prices in 1/SubTick of a tick, a tick being 10^-price_precision, *)
(*   percentages in 1/1000 (per mille),                                    *)
(* and every comparison of two quotients is cross-multiplied.  Rounding    *)
(* error of the binary floating point representation is not modelled.      *)
(***************************************************************************)
EXTENDS Integers, Sequences, FiniteSets, TLC

VARIABLES
    mode,        \* which component this behaviour exercises
    \* ---- position sizer (one call of calculate_position_size) ----
    szConfig,    \* [leverage, fractionPct]: LEVERAGE, FIXED_TRADE_PERCENTAGE
    szArgs,      \* the inputs of the last call (balance, price, exchange rules)
    szQuantity,  \* the quantity returned by the last call, in 1/QtyScale
    szPath,      \* the return statement the last call left through
    szLoops,     \* [probes, roundups]: iterations of the two while loops of that call
    \* ---- trailing stop ----
    tsConfig,    \* [useStopLoss, trailingStop, stopLossMille, trailingMille]
    tsPosition,  \* [side, entry]: the open position
    tsOrders,    \* stop prices of the STOP orders open on the exchange, in order
    tsPc,        \* "idle" | "returned" | "raised": where the evaluation stands
    tsCall,      \* the inputs and locals of the last adjust_stop_loss_for_trailing
    tsReturn,    \* its return value: 0 for None, else the new stop price
    tsAccepted,  \* the stops accepted so far, oldest first
    tsClean,     \* every read so far succeeded and every placement replaced the stop
    \* ---- signal engine (one call of get_signal) ----
    sgInput,     \* the shape of the klines argument
    sgRow,       \* the evidence in the latest row of the dataframe
    sgFault,     \* where (if anywhere) a fault is raised during the evaluation
    sgDf,        \* the signal columns of the latest row after scoring
    sgResult,    \* what get_signal returned
    sgHistory,   \* number of entries appended to signal_history
    sgPc,        \* "input" | "done"
    sgSelf,      \* [last_signal, warnings]: last_signal and _warning_count of the instance
    sgFresh,     \* what a newly constructed instance returns for the same klines
    sgCalls,     \* number of get_signal calls made on the instance
    \* ---- pattern detector (one pass of _add_price_action_patterns) ----
    pdWindow,    \* the candles of the dataframe, oldest first
    pdFlags,     \* the pattern flags per index after the pass
    pdPc,        \* "build" | "done"
    \* ---- dual take profit (one call of place_dual_take_profit_orders) ----
    tpArgs,      \* the inputs of the call (quantity, size percentages, symbol rules)
    tpOrders,    \* the TAKE_PROFIT orders open on the exchange, in order: [leg, quantity]
    tpResult,    \* the dict returned by the call
    tpPc,        \* "call" | "done"
    \* ---- two overlapping trailing-stop evaluations of one position ----
    ovPc,        \* per evaluation: "idle" | "evaluated" | "done"
    ovLocal,     \* per evaluation: [price, current_stop, value, readAt]
    ovPlaced,    \* the stops opened on the exchange, oldest first: [stop, by, readAt]
    \* ---- the order operations of the exchange client (one call) ----
    obBook,      \* the open orders on the exchange: a set of [id, symbol, type]
    obBefore,    \* the open orders when the call was made
    obOp,        \* the operation called, "none" before the call
    obSent,      \* the exchange's answers to the create-order requests the call sent
    obReturn,    \* [order, cancelled]: an order was returned (not None); cancel count
    obAccepted,  \* how many create-order requests of the call the exchange accepted
    \* ---- RiskManager.should_open_position (one call) ----
    poCall,      \* the exchange's position entries, the outcome of the reads, the configuration
    poResult     \* "none" before the call, then "True", "False" or "raised"

szVars == <<szConfig, szArgs, szQuantity, szPath, szLoops>>
tsVars == <<tsConfig, tsPosition, tsOrders, tsPc, tsCall, tsReturn, tsAccepted, tsClean>>
sgVars == <<sgInput, sgRow, sgFault, sgDf, sgResult, sgHistory, sgPc, sgSelf, sgFresh, sgCalls>>
pdVars == <<pdWindow, pdFlags, pdPc>>
tpVars == <<tpArgs, tpOrders, tpResult, tpPc>>
ovVars == <<ovPc, ovLocal, ovPlaced>>
obVars == <<obBook, obBefore, obOp, obSent, obReturn, obAccepted>>
poVars == <<poCall, poResult>>
clientVars == <<ovVars, obVars, poVars>>
vars == <<mode, szVars, tsVars, sgVars, pdVars, tpVars, clientVars>>

RECURSIVE Pow10(_)
Pow10(n) == IF n <= 0 THEN 1 ELSE 10 * Pow10(n - 1)

Max(a, b) == IF a >= b THEN a ELSE b
Min(a, b) == IF a <= b THEN a ELSE b
Abs(a) == IF a >= 0 THEN a ELSE 0 - a

\* floor(num / den) for den > 0 (TLA+ \div floors, like math.floor)
Floor(num, den) == num \div den

(***************************************************************************)
(*                          POSITION SIZER                                 *)
(***************************************************************************)

\* Quantities are integers counting 1/QtyScale of a coin.
QtyScale == Pow10(3)

\* ------------------------------- bounds --------------------------------
MaxBalance == 50
MaxPrice == 100

\* Balances (USDT): 0 (no balance / balance read failed), small and round ones.
Balances == {b \in 0..MaxBalance : b <= 2 \/ b % 10 = 0}
Prices == 1..MaxPrice
\* min_qty of the LOT_SIZE filter in 1/QtyScale: 0.001, 0.01, 0.1, 1, 0.25, 0.5,
\* 5, and 0 (which get_step_size replaces by its default).
MinQtys == {0, 1, 10, 100, 250, 500, 1000, 5000}
\* max_qty of the LOT_SIZE filter, in 1/QtyScale: 100 and 1000 coins
MaxQtys == {100 * QtyScale, 1000 * QtyScale}
\* notional of the MIN_NOTIONAL filter (USDT)
MinNotionals == {5, 100}
\* LEVERAGE and FIXED_TRADE_PERCENTAGE are read from the environment
\* (config.py:30, 36): the defaults of config.py and the values of the
\* documented example.
SizingConfigs == {[leverage |-> 20, fractionPct |-> 20],
                  [leverage |-> 25, fractionPct |-> 40]}

\* get_step_size: the default step replaces a zero min_qty.
DefaultStepSize == 1
get_step_size(min_qty) == IF min_qty = 0 THEN DefaultStepSize ELSE min_qty

\* int(round(-math.log10(step_size))) for step_size = step / QtyScale:
\* the k with 10^-(k+1/2) < step_size <= 10^-(k-1/2), that is
\* 10^(5-2k) < step^2 <= 10^(7-2k).  (No tie: sqrt(10) is irrational.)
LogPrecision(step) ==
    CHOOSE k \in -1..3 :
        /\ (5 - 2 * k >= 0 => step * step > Pow10(5 - 2 * k))
        /\ step * step <= Pow10(7 - 2 * k)

\* round_step_size(quantity, step_size) for quantity = num / den (in 1/QtyScale)
\* and step_size > 0: floor to `precision` decimals, then raise to one step.
round_step_size(num, den, step) ==
    LET p == LogPrecision(step)
        precision == IF p < 0 THEN 0 ELSE p
        grid == QtyScale \div Pow10(precision)
        rounded == Floor(num, den * grid) * grid
    IN  IF rounded < step THEN step ELSE rounded

\* a budget test that every quantity passes
MarginFitsAlways(q, price, balance, cfg) == TRUE

\* margin(q) <= trade_amount, with margin = (q/QtyScale) * price / LEVERAGE and
\* trade_amount = balance * fractionPct / 100
MarginFits(q, price, balance, cfg) ==
    q * price * 100 <= balance * cfg.fractionPct * cfg.leverage * QtyScale

\* a loop is followed for at most LoopCap iterations
LoopCap == 40

\* the probing loop of lines 109-115, n iterations done: [quantity, iterations]
RECURSIVE ProbeLoop(_, _, _, _, _, _)
ProbeLoop(quantity, step, price, balance, cfg, n) ==
    IF n < LoopCap /\ MarginFits(quantity + step, price, balance, cfg)
    THEN ProbeLoop(quantity + step, step, price, balance, cfg, n + 1)
    ELSE [quantity |-> quantity, iterations |-> n]

MaximalFill(quantity, step, price, balance, cfg) ==
    ProbeLoop(quantity, step, price, balance, cfg, 0).quantity

\* the comparison against half of min_notional
BelowNotionalHalved(q, price, min_notional) == 2 * q * price < min_notional * QtyScale

\* quantity * price < min_notional
BelowNotional(q, price, min_notional) == q * price < min_notional * QtyScale

\* the round-up loop of lines 129-130, n iterations done: [quantity, iterations]
RECURSIVE RoundUpLoop(_, _, _, _, _)
RoundUpLoop(min_quantity, step, price, min_notional, n) ==
    IF n < LoopCap /\ BelowNotional(min_quantity, price, min_notional)
    THEN RoundUpLoop(min_quantity + step, step, price, min_notional, n + 1)
    ELSE [quantity |-> min_quantity, iterations |-> n]

NotionalRoundUp(min_quantity, step, price, min_notional) ==
    RoundUpLoop(min_quantity, step, price, min_notional, 0).quantity

\* a balance request that hands back the wallet balance whatever the endpoints
\* answered
get_account_balance_unguarded(balance, balanceOk) == balance

\* BinanceClient.get_account_balance: the USDT balance of the first endpoint
\* that answers; 0.0 when every endpoint fails after its retries (balanceOk
\* FALSE).
get_account_balance(balance, balanceOk) == IF balanceOk THEN balance ELSE 0

\* calculate_position_size: [quantity, path, probes, roundups] for one call.
\* a.balance is the USDT balance of the account, a.balanceOk whether an
\* endpoint reported it, a.infoOk whether get_symbol_info returned the rules.
calculate_position_size(a, cfg) ==
    LET balance == get_account_balance(a.balance, a.balanceOk)
    IN
    IF balance <= 0 THEN [quantity |-> 0, path |-> "no_balance", probes |-> 0, roundups |-> 0]
    ELSE IF ~a.infoOk
    THEN [quantity |-> 0, path |-> "no_symbol_info", probes |-> 0, roundups |-> 0]
    ELSE
    LET step == get_step_size(a.minQty)
        \* max_quantity = trade_amount * LEVERAGE / price, in 1/QtyScale
        maxNum == balance * cfg.fractionPct * cfg.leverage * QtyScale
        maxDen == 100 * a.price
        base == round_step_size(maxNum, maxDen, step)
        filled == MaximalFill(base, step, a.price, balance, cfg)
        probes == ProbeLoop(base, step, a.price, balance, cfg, 0).iterations
    IN  IF BelowNotional(filled, a.price, a.minNotional)
        THEN LET minBase == round_step_size(a.minNotional * QtyScale, a.price, step)
                 minQuantity == NotionalRoundUp(minBase, step, a.price, a.minNotional)
                 roundups == RoundUpLoop(minBase, step, a.price, a.minNotional, 0).iterations
             IN  IF MarginFits(minQuantity, a.price, balance, cfg)
                 THEN [quantity |-> minQuantity, path |-> "min_notional",
                       probes |-> probes, roundups |-> roundups]
                 ELSE [quantity |-> 0, path |-> "notional_unmet",
                       probes |-> probes, roundups |-> roundups]
        ELSE IF filled <= 0
        THEN [quantity |-> 0, path |-> "too_low", probes |-> probes, roundups |-> 0]
        ELSE [quantity |-> filled, path |-> "maximal_fill", probes |-> probes, roundups |-> 0]

\* the arguments a call can meet: what get_account_balance and
\* get_symbol_info return, and the market price
SizingArgs ==
    [balance : Balances, balanceOk : BOOLEAN, infoOk : BOOLEAN, price : Prices,
     minQty : MinQtys, maxQty : MaxQtys, minNotional : MinNotionals]

NoArgs == [balance |-> 0, balanceOk |-> TRUE, infoOk |-> FALSE, price |-> 1, minQty |-> 0,
           maxQty |-> 100 * QtyScale, minNotional |-> 5]

InitSizing ==
    /\ szConfig \in SizingConfigs
    /\ szArgs \in SizingArgs
    /\ szQuantity = 0
    /\ szPath = "none"
    /\ szLoops = [probes |-> 0, roundups |-> 0]

\* One call of RiskManager.calculate_position_size.
CalculatePositionSize ==
    /\ mode = "sizing"
    /\ szPath = "none"
    /\ LET r == calculate_position_size(szArgs, szConfig)
       IN  /\ szQuantity' = r.quantity
           /\ szPath' = r.path
           /\ szLoops' = [probes |-> r.probes, roundups |-> r.roundups]
    /\ UNCHANGED <<mode, szConfig, szArgs, tsVars, sgVars, pdVars, tpVars, clientVars>>

(***************************************************************************)
(*                           TRAILING STOP                                 *)
(***************************************************************************)

\* Stop prices are integers counting 1/SubTick of a tick (a tick is
\* 10^-price_precision), so that price * (1 -+ pct) is exact for a price in
\* whole ticks and a percentage in per mille.
SubTick == Pow10(3)

\* ------------------------------- bounds --------------------------------
NumPrices == 4
MaxAccepted == 3
MaxOrders == 1

\* entry price of the position: 100.00, in ticks
EntryTicks == 100 * 100
\* current prices offered to the evaluation, in ticks: 102.00 and 100.50 are
\* the prices of the documented example, the others move around the entry.
PriceList == <<10200, 10050, 9950, 9800, 10100, 10000, 9900>>
TrailPrices == {PriceList[k] : k \in 1..Min(NumPrices, Len(PriceList))}

\* USE_STOP_LOSS, TRAILING_STOP, STOP_LOSS_PCT, TRAILING_STOP_PCT are read from
\* the environment (config.py:71-74): the defaults (0.8%, 1.2%), the values of
\* the documented example (0.5%, 0.5%), and each switch turned off.
TrailConfigs ==
    {[useStopLoss |-> TRUE,  trailingStop |-> TRUE,  stopLossMille |-> 8, trailingMille |-> 12],
     [useStopLoss |-> TRUE,  trailingStop |-> TRUE,  stopLossMille |-> 5, trailingMille |-> 5],
     [useStopLoss |-> FALSE, trailingStop |-> TRUE,  stopLossMille |-> 8, trailingMille |-> 12],
     [useStopLoss |-> TRUE,  trailingStop |-> FALSE, stopLossMille |-> 8, trailingMille |-> 12]}

\* round(x, price_precision): to the nearest tick, a tie to the even tick
\* (Python's round).
RoundToTick(x) ==
    LET q == x \div SubTick
        r == x % SubTick
    IN  IF 2 * r < SubTick THEN q * SubTick
        ELSE IF 2 * r > SubTick THEN (q + 1) * SubTick
        ELSE IF q % 2 = 0 THEN q * SubTick ELSE (q + 1) * SubTick

\* calculate_stop_loss: 0 stands for None.  infoOk: get_symbol_info returned
\* the rules, so the price is rounded.
calculate_stop_loss(side, entryTicks, cfg, infoOk) ==
    IF ~cfg.useStopLoss THEN 0
    ELSE LET stop_price == IF side = "BUY"
                           THEN entryTicks * (1000 - cfg.stopLossMille)
                           ELSE entryTicks * (1000 + cfg.stopLossMille)
         IN  IF infoOk THEN RoundToTick(stop_price) ELSE stop_price

\* get_open_orders as _get_current_stop_loss_price sees it: a failed read is
\* reported as the empty list.
get_open_orders(orders, readOk) == IF readOk THEN orders ELSE <<>>

\* _get_current_stop_loss_price: the first open stop order with a positive
\* stop price, else the stop derived from the entry price.
FirstStop(orders) ==
    LET idx == {i \in 1..Len(orders) : orders[i] > 0}
    IN  IF idx = {} THEN 0
        ELSE orders[CHOOSE i \in idx : \A j \in idx : i <= j]

get_current_stop_loss_price(orders, readOk, side, entryTicks, cfg, infoOk) ==
    LET found == FirstStop(get_open_orders(orders, readOk))
    IN  IF found > 0 THEN found
        ELSE calculate_stop_loss(side, entryTicks, cfg, infoOk)

\* the candidate of lines 311 / 325, before rounding
TrailingCandidate(side, priceTicks, cfg) ==
    IF side = "BUY" THEN priceTicks * (1000 - cfg.trailingMille)
    ELSE priceTicks * (1000 + cfg.trailingMille)

\* a guard that lets every candidate through
CandidateNeverRejected(side, new_stop, current_stop) == FALSE

\* the guard with the comparison of the long side applied to both sides
CandidateRejectedOneSided(side, new_stop, current_stop) ==
    current_stop # 0 /\ new_stop <= current_stop

\* the guard of lines 315 / 329: TRUE when the candidate is rejected
CandidateRejected(side, new_stop, current_stop) ==
    IF side = "BUY"
    THEN current_stop # 0 /\ new_stop <= current_stop
    ELSE current_stop # 0 /\ new_stop >= current_stop

\* adjust_stop_loss_for_trailing: [outcome, value, current_stop].
\* outcome "none": the call returns None; "stop": it returns value;
\* "raised": formatting current_stop = None on line 353 raises TypeError.
adjust_stop_loss_for_trailing(side, priceTicks, orders, pos, cfg, posOk, readOk, infoBase, infoRound) ==
    IF ~cfg.trailingStop THEN [outcome |-> "none", value |-> 0, current_stop |-> 0]
    ELSE IF ~posOk THEN [outcome |-> "none", value |-> 0, current_stop |-> 0]
    ELSE
    LET current_stop == get_current_stop_loss_price(orders, readOk, side, pos.entry, cfg, infoBase)
        new_stop == TrailingCandidate(side, priceTicks, cfg)
    IN  IF CandidateRejected(side, new_stop, current_stop)
        THEN [outcome |-> "none", value |-> 0, current_stop |-> current_stop]
        ELSE IF current_stop = 0
        THEN [outcome |-> "raised", value |-> 0, current_stop |-> 0]
        ELSE [outcome |-> "stop",
              value |-> IF infoRound THEN RoundToTick(new_stop) ELSE new_stop,
              current_stop |-> current_stop]

NoCall == [price |-> 0, posOk |-> TRUE, readOk |-> TRUE, rounded |-> FALSE, current_stop |-> 0]

InitTrail ==
    /\ tsConfig \in TrailConfigs
    /\ tsPosition \in {[side |-> s, entry |-> EntryTicks] : s \in {"BUY", "SELL"}}
    \* the stop placed when the position was opened is on the exchange, or no
    \* stop order exists yet
    /\ \/ /\ tsConfig.useStopLoss
          /\ tsOrders = <<calculate_stop_loss(tsPosition.side, tsPosition.entry, tsConfig, TRUE)>>
       \/ tsOrders = <<>>
    /\ tsAccepted = tsOrders
    /\ tsPc = "idle"
    /\ tsCall = NoCall
    /\ tsReturn = 0
    /\ tsClean = TRUE

\* What the exchange answers during one evaluation: posOk, the position is
\* returned and open; readOk, the open-orders read succeeds; infoBase and
\* infoRound, get_symbol_info answers inside calculate_stop_loss and before
\* the rounding.  Without a position none of the other requests is made.
Answers ==
    {e \in [posOk : BOOLEAN, readOk : BOOLEAN, infoBase : BOOLEAN, infoRound : BOOLEAN] :
        ~e.posOk => (e.readOk /\ e.infoBase /\ e.infoRound)}

\* One call of RiskManager.adjust_stop_loss_for_trailing for the position.
AdjustStopLoss ==
    /\ mode = "trail"
    /\ tsPc = "idle"
    /\ Len(tsAccepted) < MaxAccepted
    /\ \E p \in TrailPrices, e \in Answers :
          LET r == adjust_stop_loss_for_trailing(tsPosition.side, p, tsOrders, tsPosition,
                                                 tsConfig, e.posOk, e.readOk, e.infoBase,
                                                 e.infoRound)
          IN  /\ tsCall' = [price |-> p, posOk |-> e.posOk, readOk |-> e.readOk,
                            rounded |-> (e.infoRound /\ r.outcome = "stop"),
                            current_stop |-> r.current_stop]
              /\ tsReturn' = r.value
              /\ tsPc' = IF r.outcome = "raised" THEN "raised" ELSE "returned"
              /\ tsAccepted' = IF r.outcome = "stop" THEN Append(tsAccepted, r.value)
                               ELSE tsAccepted
              /\ tsClean' = (tsClean /\ (e.readOk \/ ~tsConfig.trailingStop))
    /\ UNCHANGED <<mode, tsConfig, tsPosition, tsOrders, szVars, sgVars, pdVars, tpVars, clientVars>>

\* the orders left open when the cancel requests of `cancelled` (indices)
\* succeeded
RECURSIVE KeepOrders(_, _, _)
KeepOrders(orders, cancelled, i) ==
    IF i > Len(orders) THEN <<>>
    ELSE IF i \in cancelled THEN KeepOrders(orders, cancelled, i + 1)
    ELSE <<orders[i]>> \o KeepOrders(orders, cancelled, i + 1)

\* BinanceClient.place_stop_loss_order(stop_price): cancel the open stop
\* orders (each cancel request may fail; a failed read cancels nothing), then
\* create the new order (created: one of the attempts succeeded).
place_stop_loss_order(orders, stop_price, readOk, cancelled, created) ==
    LET left == IF readOk THEN KeepOrders(orders, cancelled, 1) ELSE orders
    IN  IF created THEN Append(left, stop_price) ELSE left

\* The caller submits the stop returned by the evaluation.
PlaceStopLoss ==
    /\ mode = "trail"
    /\ tsPc = "returned"
    /\ tsReturn # 0
    /\ \E readOk \in BOOLEAN, cancelled \in SUBSET (1..Len(tsOrders)), created \in BOOLEAN :
          LET after == place_stop_loss_order(tsOrders, tsReturn, readOk, cancelled, created)
          IN  /\ Len(after) <= MaxOrders
              /\ tsOrders' = after
              /\ tsClean' = (tsClean /\ FirstStop(after) = tsReturn)
    /\ tsPc' = "idle"
    /\ UNCHANGED <<mode, tsConfig, tsPosition, tsCall, tsReturn, tsAccepted, szVars, sgVars, pdVars, tpVars, clientVars>>

\* The evaluation returned None (or raised): the caller updates nothing.
NoUpdate ==
    /\ mode = "trail"
    /\ \/ tsPc = "returned" /\ tsReturn = 0
       \/ tsPc = "raised"
    /\ tsPc' = "idle"
    /\ UNCHANGED <<mode, tsConfig, tsPosition, tsOrders, tsCall, tsReturn, tsAccepted, tsClean,
                   szVars, sgVars, pdVars, tpVars, clientVars>>

(***************************************************************************)
(*                            SIGNAL ENGINE                                *)
(***************************************************************************)

\* ------------------------------- bounds --------------------------------
\* how many pieces of evidence (pattern flags, non-neutral metrics) a row holds
MaxEvidence == 3
\* the same for the rows of an instance that is called again and again, and
\* the number of calls made on it
MaxReplayEvidence == 2
MaxCalls == 3

\* the strategy parameters get_strategy passes (the fallback values: config.py
\* defines no MOMENTUM_THRESHOLD, so the import of lines 15-22 fails)
LookbackPeriod == 20
VolatilityWindow == 14
MomentumWindow == 10
\* momentum_threshold 0.01, in per mille
MomentumThreshold == 10
\* volume_threshold 1.5, in tenths
VolumeThreshold == 15
\* volatility_ratio > 1.2 (reversal bonus) and > 1.3 (expansion), in tenths
VolBonusLevel == 12
VolExpansionLevel == 13
\* min_signal_strength of the final decision
MinSignalStrength == 4
\* the number of fields of a kline record
KlineFields == 12

MinRequired == Max(Max(LookbackPeriod, VolatilityWindow), MomentumWindow) + 5

\* The pattern columns the scorer reads, in the order
\* _add_price_action_patterns writes them for one index.
PatternOrder == <<"pin_bar_bullish", "pin_bar_bearish", "marubozu_bullish", "marubozu_bearish",
                  "gravestone_doji", "dragonfly_doji",
                  "engulfing_bullish", "engulfing_bearish", "tweezer_top", "tweezer_bottom",
                  "morning_star", "evening_star", "three_white_soldiers", "three_black_crows",
                  "inside_bar", "outside_bar",
                  "bullish_flag", "bearish_flag", "bullish_pennant", "bearish_pennant">>
PatternNames == {PatternOrder[i] : i \in 1..Len(PatternOrder)}

\* flags the detector sets only on a candle with close > open / close < open
BullishCandleFlags == {"marubozu_bullish", "engulfing_bullish", "tweezer_bottom", "morning_star",
                       "three_white_soldiers", "bullish_flag", "bullish_pennant"}
BearishCandleFlags == {"marubozu_bearish", "engulfing_bearish", "tweezer_top", "evening_star",
                       "three_black_crows", "bearish_flag", "bearish_pennant"}
\* flags whose body conditions exclude each other: body < 10% of the range
\* (doji family), body > 10% with a long shadow (pin bars), body > 90% (marubozu)
SmallBodyFlags == {"gravestone_doji", "dragonfly_doji"}
PinBarFlags == {"pin_bar_bullish", "pin_bar_bearish"}
FullBodyFlags == {"marubozu_bullish", "marubozu_bearish"}

\* The evidence of the latest row.  dir: sign of close - open; momentum in per
\* mille; acceleration, closeDelta (close - previous close), alignment (+1 both
\* fast and slow momentum > 0, -1 both < 0), trend (+1 trend_bullish,
\* -1 trend_bearish): signs; volumeRatio, volatilityRatio in tenths.
NeutralRow == [flags |-> {}, dir |-> 0, momentum |-> 0, acceleration |-> 0, alignment |-> 0,
               closeDelta |-> 0, trend |-> 0, volumeRatio |-> 10, volatilityRatio |-> 10]

\* one more piece of evidence on a row
Evidence(row) ==
    {[row EXCEPT !.flags = @ \cup {f}] : f \in PatternNames \ row.flags}
    \cup (IF row.dir = 0 THEN {[row EXCEPT !.dir = d] : d \in {-1, 1}} ELSE {})
    \cup (IF row.momentum = 0 THEN {[row EXCEPT !.momentum = m] : m \in {-20, -5, 5, 20}} ELSE {})
    \cup (IF row.acceleration = 0 THEN {[row EXCEPT !.acceleration = d] : d \in {-1, 1}} ELSE {})
    \cup (IF row.alignment = 0 THEN {[row EXCEPT !.alignment = d] : d \in {-1, 1}} ELSE {})
    \cup (IF row.closeDelta = 0 THEN {[row EXCEPT !.closeDelta = d] : d \in {-1, 1}} ELSE {})
    \cup (IF row.trend = 0 THEN {[row EXCEPT !.trend = d] : d \in {-1, 1}} ELSE {})
    \cup (IF row.volumeRatio = 10 THEN {[row EXCEPT !.volumeRatio = 16]} ELSE {})
    \cup (IF row.volatilityRatio = 10 THEN {[row EXCEPT !.volatilityRatio = v] : v \in {13, 14}} ELSE {})

EvidenceCount(row) ==
    Cardinality(row.flags)
    + (IF row.dir # 0 THEN 1 ELSE 0) + (IF row.momentum # 0 THEN 1 ELSE 0)
    + (IF row.acceleration # 0 THEN 1 ELSE 0) + (IF row.alignment # 0 THEN 1 ELSE 0)
    + (IF row.closeDelta # 0 THEN 1 ELSE 0) + (IF row.trend # 0 THEN 1 ELSE 0)
    + (IF row.volumeRatio # 10 THEN 1 ELSE 0) + (IF row.volatilityRatio # 10 THEN 1 ELSE 0)

\* rows the detector and add_indicators can produce
RowConsistent(row) ==
    /\ (row.flags \cap BullishCandleFlags # {} => row.dir = 1)
    /\ (row.flags \cap BearishCandleFlags # {} => row.dir = -1)
    /\ Cardinality(row.flags \cap SmallBodyFlags) <= 1
    /\ Cardinality(row.flags \cap PinBarFlags) <= 1
    /\ Cardinality(row.flags \cap FullBodyFlags) <= 1
    /\ Cardinality({S \in {SmallBodyFlags, PinBarFlags, FullBodyFlags} : row.flags \cap S # {}}) <= 1
    /\ ~({"inside_bar", "outside_bar"} \subseteq row.flags)

\* columns derived in add_indicators
volume_spike(row) == row.volumeRatio > VolumeThreshold
momentum_bullish_div(row) == row.closeDelta < 0 /\ row.acceleration > 0
momentum_bearish_div(row) == row.closeDelta > 0 /\ row.acceleration < 0

\* the bullish list with the engulfing pattern at the base score of a pin bar
BullishReversalEngulfingFour ==
    << <<"pin_bar_bullish", 4>>, <<"engulfing_bullish", 4>>, <<"morning_star", 5>>,
       <<"dragonfly_doji", 3>>, <<"tweezer_bottom", 4>>,
       <<"three_white_soldiers", 5>>, <<"marubozu_bullish", 4>> >>

\* the priority lists of lines 544-552 and 641-649: <<column, base score>>
BullishReversal == << <<"pin_bar_bullish", 4>>, <<"engulfing_bullish", 5>>, <<"morning_star", 5>>,
                      <<"dragonfly_doji", 3>>, <<"tweezer_bottom", 4>>,
                      <<"three_white_soldiers", 5>>, <<"marubozu_bullish", 4>> >>
BearishReversal == << <<"pin_bar_bearish", 4>>, <<"engulfing_bearish", 5>>, <<"evening_star", 5>>,
                      <<"gravestone_doji", 3>>, <<"tweezer_top", 4>>,
                      <<"three_black_crows", 5>>, <<"marubozu_bearish", 4>> >>

\* the last detected pattern instead of the first
FirstDetectedLast(list, flags) ==
    LET hit == {i \in 1..Len(list) : list[i][1] \in flags}
    IN  IF hit = {} THEN 0 ELSE CHOOSE i \in hit : \A j \in hit : i >= j

\* index of the first detected pattern of a priority list, 0 when none
FirstDetected(list, flags) ==
    LET hit == {i \in 1..Len(list) : list[i][1] \in flags}
    IN  IF hit = {} THEN 0 ELSE CHOOSE i \in hit : \A j \in hit : i <= j

\* the reversal loop (lines 554-570, 651-667): only the first detected pattern
ReversalScore(list, row) ==
    LET i == FirstDetected(list, row.flags)
    IN  IF i = 0 THEN 0
        ELSE list[i][2] + (IF volume_spike(row) THEN 2 ELSE 0)
                        + (IF row.volatilityRatio > VolBonusLevel THEN 1 ELSE 0)

ReversalReason(list, row) ==
    LET i == FirstDetected(list, row.flags)
    IN  IF i = 0 THEN <<>> ELSE <<list[i][1]>>

\* the continuation patterns of one direction d (lines 573-597, 670-694):
\* <<name, detected, base score>>, every detected one counts
Continuation(d, row) ==
    << <<IF d = 1 THEN "bullish_flag" ELSE "bearish_flag",
         (IF d = 1 THEN "bullish_flag" ELSE "bearish_flag") \in row.flags, 4>>,
       <<IF d = 1 THEN "bullish_pennant" ELSE "bearish_pennant",
         (IF d = 1 THEN "bullish_pennant" ELSE "bearish_pennant") \in row.flags, 4>>,
       <<"inside_bar_breakout",
         "inside_bar" \in row.flags /\ row.dir = d /\ row.momentum * d > 0, 3>>,
       <<"outside_bar",
         "outside_bar" \in row.flags /\ row.dir = d, 3>> >>

RECURSIVE ContinuationScore(_, _, _, _)
ContinuationScore(list, i, d, row) ==
    IF i > Len(list) THEN 0
    ELSE (IF list[i][2]
          THEN list[i][3] + (IF row.trend = d THEN 2 ELSE 0)
                          + (IF volume_spike(row) THEN 1 ELSE 0)
          ELSE 0)
         + ContinuationScore(list, i + 1, d, row)

RECURSIVE ContinuationReasons(_, _)
ContinuationReasons(list, i) ==
    IF i > Len(list) THEN <<>>
    ELSE (IF list[i][2] THEN <<list[i][1]>> ELSE <<>>) \o ContinuationReasons(list, i + 1)

\* condition 3 (lines 600-623, 697-720)
MomentumDetected(d, row) == row.momentum * d > MomentumThreshold
MomentumScore(d, row) ==
    IF MomentumDetected(d, row)
    THEN 2 + (IF row.acceleration * d > 0 THEN 2 ELSE 0)
           + (IF row.alignment = d THEN 2 ELSE 0)
           + (IF row.volumeRatio > VolumeThreshold THEN 2 ELSE 0)
    ELSE 0

\* condition 4 (lines 626-628, 723-725)
DivergenceDetected(d, row) ==
    IF d = 1 THEN momentum_bullish_div(row) ELSE momentum_bearish_div(row)

\* condition 5 (lines 631-634, 728-731)
ExpansionDetected(d, row) ==
    row.volatilityRatio > VolExpansionLevel /\ row.momentum * d > 0 /\ row.dir = d

\* buy_score (d = 1) and sell_score (d = -1) of a row
Score(d, row) ==
    ReversalScore(IF d = 1 THEN BullishReversal ELSE BearishReversal, row)
    + ContinuationScore(Continuation(d, row), 1, d, row)
    + MomentumScore(d, row)
    + (IF DivergenceDetected(d, row) THEN 3 ELSE 0)
    + (IF ExpansionDetected(d, row) THEN 2 ELSE 0)

\* signal_reasons in the order they are appended
Reasons(d, row) ==
    ReversalReason(IF d = 1 THEN BullishReversal ELSE BearishReversal, row)
    \o ContinuationReasons(Continuation(d, row), 1)
    \o (IF MomentumDetected(d, row) THEN <<"momentum">> ELSE <<>>)
    \o (IF DivergenceDetected(d, row) THEN <<"divergence">> ELSE <<>>)
    \o (IF ExpansionDetected(d, row) THEN <<"volatility_expansion">> ELSE <<>>)

\* the decision without the margin of one point between the two scores
DecisionNoMargin(buy_score, sell_score) ==
    IF buy_score >= MinSignalStrength /\ buy_score > sell_score THEN "BUY"
    ELSE IF sell_score >= MinSignalStrength /\ sell_score > buy_score THEN "SELL"
    ELSE "HOLD"

\* the final decision of lines 738-750
Decision(buy_score, sell_score) ==
    IF buy_score >= MinSignalStrength /\ buy_score > sell_score + 1 THEN "BUY"
    ELSE IF sell_score >= MinSignalStrength /\ sell_score > buy_score + 1 THEN "SELL"
    ELSE "HOLD"

\* the signal columns of a row as line 500-504 initialise them
DefaultColumns == [present |-> TRUE, buy_signal |-> FALSE, sell_signal |-> FALSE,
                   hold_signal |-> TRUE, signal_strength |-> 0, signal_reason |-> <<>>,
                   buy_score |-> 0, sell_score |-> 0]
\* no signal column exists (the scorer did not run, or failed before line 500)
NoColumns == [DefaultColumns EXCEPT !.present = FALSE]

\* _generate_pure_price_action_signals on the latest row.  writes: how many of
\* the four df.at writes of the decision (lines 741-744 / 747-750) are done
\* before a fault is raised; 4 when no fault is raised.
generate_signals(row, writes) ==
    LET buy == Score(1, row)
        sell == Score(-1, row)
        d == Decision(buy, sell)
        scored == [DefaultColumns EXCEPT !.buy_score = buy, !.sell_score = sell]
    IN  IF d = "HOLD" THEN scored
        ELSE [scored EXCEPT
                !.buy_signal = (d = "BUY" /\ writes >= 1),
                !.sell_signal = (d = "SELL" /\ writes >= 1),
                !.hold_signal = ~(writes >= 2),
                !.signal_strength = IF writes >= 3 THEN (IF d = "BUY" THEN buy ELSE sell) ELSE 0,
                !.signal_reason = IF writes >= 4 THEN Reasons(1, row) \o Reasons(-1, row) ELSE <<>>]

\* the flags of the latest row when _add_price_action_patterns is interrupted
\* after the first `done` columns of PatternOrder were decided: the others
\* keep the FALSE of lines 1046-1080
FlagsWritten(flags, done) == {PatternOrder[i] : i \in 1..done} \cap flags

\* len(df.columns) of pd.DataFrame(klines): the longest record's field count
DataFrameColumns(input) ==
    IF input.widths = {} THEN 0
    ELSE CHOOSE w \in input.widths : \A v \in input.widths : v <= w

\* the early returns of get_signal (lines 766-777)
InputRejected(input) ==
    \/ input.rows = 0
    \/ input.rows < MinRequired
    \/ DataFrameColumns(input) # KlineFields

\* lines 820-1016: the signal read off the latest row
SignalOf(df) ==
    IF ~df.present THEN "None"
    ELSE IF df.buy_signal THEN "BUY"
    ELSE IF df.sell_signal THEN "SELL"
    ELSE "HOLD"

\* get_signal: the columns of the latest row and the value returned.
\* fault.where: "none", or the function in which an exception is raised;
\* fault.at: how far that function got on the latest row.
get_signal(input, row, fault) ==
    IF InputRejected(input) THEN [df |-> NoColumns, result |-> "None", seen |-> {}]
    ELSE IF fault.where = "add_indicators" THEN [df |-> NoColumns, result |-> "None", seen |-> {}]
    ELSE
    LET seen == IF fault.where = "patterns" THEN FlagsWritten(row.flags, fault.at) ELSE row.flags
        df == IF fault.where = "scoring_init" THEN NoColumns
              ELSE generate_signals([row EXCEPT !.flags = seen],
                                    IF fault.where = "scoring" THEN fault.at ELSE 4)
    IN  [df |-> df, result |-> SignalOf(df), seen |-> seen]

\* the instance state after __init__ (lines 38-39, 307)
NewSelf == [last_signal |-> "None", warnings |-> 0]

\* an evaluation that holds back a BUY or SELL equal to last_signal
get_signal_deduplicated(self, input, row, fault) ==
    LET r == get_signal(input, row, fault)
    IN  [df |-> r.df, seen |-> r.seen, stored |-> r.result # "None",
         result |-> IF r.result \in {"BUY", "SELL"} /\ r.result = self.last_signal
                    THEN "HOLD" ELSE r.result,
         self |-> [last_signal |-> IF r.result = "None" THEN self.last_signal ELSE r.result,
                   warnings |-> self.warnings]]

\* get_signal with the state of the instance it is called on: the warning
\* counter advances on klines that are too short (lines 767-771), a produced
\* signal is appended to signal_history and kept as last_signal (lines
\* 1023-1033); neither is read to compute the result.
get_signal_on(self, input, row, fault) ==
    LET r == get_signal(input, row, fault)
        short == input.rows = 0 \/ input.rows < MinRequired
    IN  [df |-> r.df, seen |-> r.seen, stored |-> r.result # "None",
         result |-> r.result,
         self |-> [last_signal |-> IF r.result = "None" THEN self.last_signal ELSE r.result,
                   warnings |-> IF short THEN self.warnings + 1 ELSE self.warnings]]

NoFault == [where |-> "none", at |-> 0]
Faults ==
    {NoFault, [where |-> "add_indicators", at |-> 0], [where |-> "scoring_init", at |-> 0]}
    \cup {[where |-> "patterns", at |-> k] : k \in 0..Len(PatternOrder)}
    \cup {[where |-> "scoring", at |-> k] : k \in 0..3}

\* klines arguments: rows, and the field counts that occur among the records
GoodInput == [rows |-> MinRequired, widths |-> {KlineFields}]
Inputs ==
    {[rows |-> 0, widths |-> {}],
     [rows |-> MinRequired - 1, widths |-> {KlineFields}],
     [rows |-> MinRequired, widths |-> {KlineFields - 1}],
     [rows |-> MinRequired, widths |-> {KlineFields + 1}],
     [rows |-> MinRequired, widths |-> {KlineFields - 1, KlineFields}],
     GoodInput}

InitSignal ==
    /\ sgInput = GoodInput
    /\ sgRow = NeutralRow
    /\ sgFault = NoFault
    /\ sgDf = NoColumns
    /\ sgResult = "None"
    /\ sgHistory = 0
    /\ sgPc = "input"
    /\ sgSelf = NewSelf
    /\ sgFresh = "None"
    /\ sgCalls = 0

\* the latest row of a market that trends on rising volume: momentum of 2%,
\* acceleration and both momentum windows with it, volume ratio 1.6
TrendingRow(d) == [NeutralRow EXCEPT !.momentum = 20 * d, !.acceleration = d, !.alignment = d,
                                     !.volumeRatio = 16]
InitTrend ==
    /\ sgInput = GoodInput
    /\ sgRow \in {TrendingRow(1), TrendingRow(-1)}
    /\ sgFault = NoFault
    /\ sgDf = NoColumns
    /\ sgResult = "None"
    /\ sgHistory = 0
    /\ sgPc = "input"
    /\ sgSelf = NewSelf
    /\ sgFresh = "None"
    /\ sgCalls = 0

\* how many pieces of evidence the row may hold in the running component
EvidenceLimit ==
    IF mode = "signal" THEN MaxEvidence
    ELSE IF mode = "trend" THEN EvidenceCount(TrendingRow(1)) + MaxReplayEvidence
    ELSE MaxReplayEvidence

\* The market adds one piece of evidence to the latest candle.
AddEvidence ==
    /\ mode \in {"signal", "replay", "trend"}
    /\ sgPc = "input"
    /\ EvidenceCount(sgRow) < EvidenceLimit
    /\ \E r \in Evidence(sgRow) :
          /\ RowConsistent(r)
          /\ sgRow' = r
    /\ UNCHANGED <<mode, sgInput, sgFault, sgDf, sgResult, sgHistory, sgPc, sgSelf, sgFresh, sgCalls,
                   szVars, tsVars, pdVars, tpVars, clientVars>>

\* One call of PurePriceActionStrategy.get_signal.
GetSignal ==
    /\ mode \in {"signal", "replay", "trend"}
    /\ sgPc = "input"
    /\ \E input \in Inputs, fault \in Faults :
          \E r \in {get_signal_on(sgSelf, input, sgRow, fault)} :
              /\ sgInput' = input
              \* a fault is recorded by where it struck and by what it left
              /\ sgFault' = [where |-> IF InputRejected(input) THEN "none" ELSE fault.where,
                             at |-> IF InputRejected(input) THEN 0
                                    ELSE IF fault.where = "patterns" THEN Cardinality(r.seen)
                                    ELSE fault.at]
              /\ sgDf' = r.df
              /\ sgResult' = r.result
              \* lines 1023-1033: the signal is stored when one was produced
              /\ sgHistory' = IF r.stored THEN sgHistory + 1 ELSE sgHistory
              /\ sgSelf' = r.self
              \* the same klines given to a newly constructed instance
              /\ \E fresh \in {get_signal_on(NewSelf, input, sgRow, fault)} :
                    sgFresh' = fresh.result
    /\ sgCalls' = sgCalls + 1
    /\ sgPc' = "done"
    /\ UNCHANGED <<mode, sgRow, szVars, tsVars, pdVars, tpVars, clientVars>>

\* The caller fetches the next klines and will call the same instance again.
NextKlines ==
    /\ mode = "replay"
    /\ sgPc = "done"
    /\ sgCalls < MaxCalls
    /\ sgPc' = "input"
    /\ sgInput' = GoodInput /\ sgRow' = NeutralRow /\ sgFault' = NoFault
    /\ sgDf' = NoColumns /\ sgResult' = "None" /\ sgFresh' = "None"
    /\ UNCHANGED <<mode, sgHistory, sgSelf, sgCalls, szVars, tsVars, pdVars, tpVars, clientVars>>

(***************************************************************************)
(*                          PATTERN DETECTOR                               *)
(***************************************************************************)

\* ------------------------------- bounds --------------------------------
MaxWindow == 4

\* A candle is [o, h, l, c], prices as integers.  The shapes offered to the
\* detector: well-formed candles, candles that break
\* low <= min(open, close) <= max(open, close) <= high, a flat candle and a
\* candle with a zero price.
CandleShapes ==
    {[o |-> 1000, h |-> 1010, l |-> 1000, c |-> 1010],   \* full bullish body
     [o |-> 1010, h |-> 1010, l |-> 1000, c |-> 1000],   \* full bearish body
     [o |-> 1008, h |-> 1010, l |-> 1000, c |-> 1010],   \* hammer
     [o |-> 1005, h |-> 1010, l |-> 1000, c |-> 1005],   \* doji
     [o |-> 1006, h |-> 1008, l |-> 1002, c |-> 1004],   \* small bearish body
     [o |-> 1008, h |-> 1020, l |-> 1008, c |-> 1020],   \* bullish, one level up
     [o |-> 1018, h |-> 1032, l |-> 1016, c |-> 1030],   \* bullish, two levels up
     [o |-> 1000, h |-> 1005, l |-> 1000, c |-> 1010],   \* high below the close
     [o |-> 1000, h |-> 1012, l |-> 1004, c |-> 1010],   \* low above the open
     [o |-> 1000, h |-> 1000, l |-> 1000, c |-> 1000],   \* flat
     [o |-> 0,    h |-> 1010, l |-> 1000, c |-> 1010]}   \* zero open

\* the candle invariant of the data model
ValidOHLC(k) == k.l <= Min(k.o, k.c) /\ Max(k.o, k.c) <= k.h

body(k) == Abs(k.c - k.o)
range(k) == k.h - k.l
upper_shadow(k) == k.h - Max(k.o, k.c)
lower_shadow(k) == Min(k.o, k.c) - k.l

\* row i of the dataframe, i counted from 0 as df.iloc[i]
Row(w, i) == w[i + 1]

\* lines 1092-1097: every price of the candle is positive
PositivePrices(k) == k.o > 0 /\ k.h > 0 /\ k.l > 0 /\ k.c > 0

HighMax(w, from, to) ==
    LET hs == {Row(w, j).h : j \in from..to} IN CHOOSE x \in hs : \A y \in hs : y <= x
LowMin(w, from, to) ==
    LET ls == {Row(w, j).l : j \in from..to} IN CHOOSE x \in ls : \A y \in ls : x <= y

\* lines 1134-1259: the flags decided from the candles i, i-1, i-2
CandlePatterns(c, p, p2) ==
    (IF 20 * body(c) > range(c) /\ 2 * lower_shadow(c) > 5 * body(c)
        /\ 5 * upper_shadow(c) < 2 * body(c) /\ 10 * body(c) > range(c)
     THEN {"pin_bar_bullish"} ELSE {})
    \cup (IF 20 * body(c) > range(c) /\ 2 * upper_shadow(c) > 5 * body(c)
             /\ 5 * lower_shadow(c) < 2 * body(c) /\ 10 * body(c) > range(c)
          THEN {"pin_bar_bearish"} ELSE {})
    \cup (IF 10 * body(c) > 9 * range(c)
          THEN (IF c.c > c.o THEN {"marubozu_bullish"} ELSE {"marubozu_bearish"}) ELSE {})
    \cup (IF 10 * body(c) < range(c) /\ range(c) > 0
          THEN (IF 10 * upper_shadow(c) > 7 * range(c) /\ 10 * lower_shadow(c) < range(c)
                THEN {"gravestone_doji"}
                ELSE IF 10 * lower_shadow(c) > 7 * range(c) /\ 10 * upper_shadow(c) < range(c)
                THEN {"dragonfly_doji"}
                ELSE {"doji"})
          ELSE {})
    \cup (IF 10 * body(c) > range(c) /\ 10 * body(c) < 3 * range(c)
             /\ upper_shadow(c) > body(c) /\ lower_shadow(c) > body(c)
          THEN (IF c.c > c.o THEN {"spinning_top"} ELSE {"spinning_bottom"}) ELSE {})
    \cup (IF body(p) > 0 /\ body(c) > 0
          THEN (IF p.c < p.o /\ c.c > c.o /\ c.c > p.o /\ c.o < p.c /\ 10 * body(c) > 11 * body(p)
                THEN {"engulfing_bullish"}
                ELSE IF p.c > p.o /\ c.c < c.o /\ c.c < p.o /\ c.o > p.c
                        /\ 10 * body(c) > 11 * body(p)
                THEN {"engulfing_bearish"}
                ELSE {})
          ELSE {})
    \cup (IF 500 * Abs(c.h - p.h) < c.h + p.h
             /\ c.c < c.o /\ p.c < p.o /\ 200 * c.h >= 201 * Max(c.o, c.c)
          THEN {"tweezer_top"} ELSE {})
    \cup (IF 500 * Abs(c.l - p.l) < c.l + p.l
             /\ c.c > c.o /\ p.c > p.o /\ 200 * c.l <= 199 * Min(c.o, c.c)
          THEN {"tweezer_bottom"} ELSE {})
    \cup (IF p2.c < p2.o /\ 2 * body(p) < body(p2) /\ c.c > c.o /\ 2 * c.c > p2.o + p2.c
          THEN {"morning_star"} ELSE {})
    \cup (IF p2.c > p2.o /\ 2 * body(p) < body(p2) /\ c.c < c.o /\ 2 * c.c < p2.o + p2.c
          THEN {"evening_star"} ELSE {})
    \cup (IF p2.c > p2.o /\ p.c > p.o /\ c.c > c.o /\ c.c > p.c /\ p.c > p2.c
             /\ 200 * c.o > 199 * p.o /\ 200 * p.o > 199 * p2.o
             /\ 5 * body(c) > 3 * range(c) /\ 5 * body(p) > 3 * range(p)
          THEN {"three_white_soldiers"} ELSE {})
    \cup (IF p2.c < p2.o /\ p.c < p.o /\ c.c < c.o /\ c.c < p.c /\ p.c < p2.c
             /\ 200 * c.o < 201 * p.o /\ 200 * p.o < 201 * p2.o
             /\ 5 * body(c) > 3 * range(c) /\ 5 * body(p) > 3 * range(p)
          THEN {"three_black_crows"} ELSE {})
    \cup (IF c.h < p.h /\ c.l > p.l THEN {"inside_bar"} ELSE {})
    \cup (IF c.h > p.h /\ c.l < p.l /\ body(c) > body(p) THEN {"outside_bar"} ELSE {})

\* lines 1266-1292: the flag over the rows i-4..i, after a move of more than
\* 2% from row i-7 (row 0 when i < 7) to row i-1
FlagPatterns(w, i) ==
    IF i < 5 THEN {}
    ELSE
    LET c == Row(w, i)
        prev == Row(w, i - 1)
        trend_start == IF i >= 7 THEN Row(w, i - 7) ELSE Row(w, 0)
        move == prev.c - trend_start.c      \* pre_flag_move * trend_start.close
        flag_range == HighMax(w, i - 4, i) - LowMin(w, i - 4, i)
    IN  IF trend_start.c > 0 /\ 50 * Abs(move) > trend_start.c
           /\ 2 * flag_range * trend_start.c < Abs(move) * prev.c
        THEN (IF move > 0 /\ c.c > c.o /\ c.c > HighMax(w, i - 4, i) THEN {"bullish_flag"}
              ELSE IF move < 0 /\ c.c < c.o /\ c.c < LowMin(w, i - 4, i) THEN {"bearish_flag"}
              ELSE {})
        ELSE {}

\* lines 1295-1322: the pennant over the rows i-5..i, after a move of more
\* than 2% from row i-9 (row 0 when i < 9) to row i-5
PennantPatterns(w, i) ==
    IF i < 6 THEN {}
    ELSE
    LET c == Row(w, i)
        first == Row(w, i - 5)
        trend_start == IF i >= 9 THEN Row(w, i - 9) ELSE Row(w, 0)
        move == first.c - trend_start.c     \* pre_pennant_move * trend_start.close
    IN  IF 10 * range(Row(w, i - 1)) < 7 * range(first)
           /\ trend_start.c > 0 /\ 50 * Abs(move) > trend_start.c
        THEN (IF move > 0 /\ c.c > c.o /\ c.c > HighMax(w, i - 5, i) THEN {"bullish_pennant"}
              ELSE IF move < 0 /\ c.c < c.o /\ c.c < LowMin(w, i - 5, i) THEN {"bearish_pennant"}
              ELSE {})
        ELSE {}

\* one iteration of the loop of line 1082 (i >= 3): the flags of row i
PatternsAt(w, i) ==
    LET c == Row(w, i)
        p == Row(w, i - 1)
        p2 == Row(w, i - 2)
        p3 == Row(w, i - 3)
    IN  IF ~(PositivePrices(c) /\ PositivePrices(p) /\ PositivePrices(p2) /\ PositivePrices(p3))
        THEN {}
        ELSE IF range(c) = 0 \/ range(p) = 0 \/ range(p2) = 0 THEN {}
        ELSE CandlePatterns(c, p, p2) \cup FlagPatterns(w, i) \cup PennantPatterns(w, i)

\* _add_price_action_patterns: the flags of every row
add_price_action_patterns(w) ==
    [i \in 0..(Len(w) - 1) |-> IF i < 3 THEN {} ELSE PatternsAt(w, i)]

InitPattern ==
    /\ pdWindow = <<>>
    /\ pdFlags = <<>>
    /\ pdPc = "build"

\* The caller's window grows by one candle.
AppendCandle ==
    /\ mode = "pattern"
    /\ pdPc = "build"
    /\ Len(pdWindow) < MaxWindow
    /\ \E k \in CandleShapes : pdWindow' = Append(pdWindow, k)
    /\ UNCHANGED <<mode, pdFlags, pdPc, szVars, tsVars, sgVars, tpVars, clientVars>>

\* Windows long enough for the flag (index >= 5) and the pennant (index >= 6):
\* a first candle 10% below or above the level of the others, then
\* consolidation and break-out candles around that level, all well-formed.
MaxBreakoutWindow == 7
TrendStarts ==
    {[o |-> 1000, h |-> 1002, l |-> 998,  c |-> 1000],   \* before a rise
     [o |-> 1200, h |-> 1202, l |-> 1198, c |-> 1200]}   \* before a fall
Consolidation ==
    {[o |-> 1098, h |-> 1106, l |-> 1094, c |-> 1100],   \* wide
     [o |-> 1100, h |-> 1102, l |-> 1098, c |-> 1100],   \* narrow
     [o |-> 1100, h |-> 1110, l |-> 1100, c |-> 1110],   \* bullish break-out
     [o |-> 1100, h |-> 1100, l |-> 1090, c |-> 1090]}   \* bearish break-down

\* The caller's window grows by one candle of a trend and its consolidation.
AppendBreakoutCandle ==
    /\ mode = "breakout"
    /\ pdPc = "build"
    /\ Len(pdWindow) < MaxBreakoutWindow
    /\ \E k \in (IF pdWindow = <<>> THEN TrendStarts ELSE Consolidation) :
          pdWindow' = Append(pdWindow, k)
    /\ UNCHANGED <<mode, pdFlags, pdPc, szVars, tsVars, sgVars, tpVars, clientVars>>

\* One pass of _add_price_action_patterns over the window.
DetectPatterns ==
    /\ mode \in {"pattern", "breakout"}
    /\ pdPc = "build"
    /\ pdFlags' = add_price_action_patterns(pdWindow)
    /\ pdPc' = "done"
    /\ UNCHANGED <<mode, pdWindow, szVars, tsVars, sgVars, tpVars, clientVars>>

(***************************************************************************)
(*                          DUAL TAKE PROFIT                               *)
(***************************************************************************)

\* Leg quantities are held in 1/TpScale of a coin, so that the product of a
\* position quantity (1/QtyScale) and a size percentage (1/100) is exact.
TpScale == QtyScale * 100

\* the position sizes, size percentages and quantity precisions of a call
TpQuantities == {4, 100, 300, 500, 1000, 1500, 2500}
SizePcts == {25, 50, 100}
QtyPrecisions == {0, 1, 2, 3}

\* max_retries of _place_single_take_profit_order
MaxRetries == 3

\* round(x, precision) of a quantity x held in 1/TpScale: the nearest multiple
\* of 10^-precision, a tie going to the even multiple
round_half_even(x, precision) ==
    LET unit == TpScale \div Pow10(precision)
        k == x \div unit
        r == x % unit
    IN  IF 2 * r < unit THEN k * unit
        ELSE IF 2 * r > unit THEN (k + 1) * unit
        ELSE IF k % 2 = 0 THEN k * unit ELSE (k + 1) * unit

\* lines 681-690: the two leg quantities.  The second leg is rounded from the
\* unrounded remainder; without symbol rules nothing is rounded.
leg_quantities(a) ==
    LET tp1 == a.quantity * a.tp1SizePct
        tp2 == a.quantity * a.tp2SizePct - tp1
    IN  IF a.infoOk
        THEN [tp1 |-> round_half_even(tp1, a.precision), tp2 |-> round_half_even(tp2, a.precision)]
        ELSE [tp1 |-> tp1, tp2 |-> tp2]

\* what futures_create_order answers to one attempt
ExchangeAnswers == {"order", "transient", "rejected"}
\* the answers to the attempts of one leg; the attempts that are never made
\* (after an order or a rejection) are fixed to "order"
AnswerLists ==
    {l \in [1..MaxRetries -> ExchangeAnswers] :
        \A i \in 1..MaxRetries : l[i] # "transient" => \A j \in (i + 1)..MaxRetries : l[j] = "order"}

\* _place_single_take_profit_order (lines 740-785): up to MaxRetries
\* attempts, a transient error is retried, any other error gives None
RECURSIVE place_single_take_profit_order(_, _)
place_single_take_profit_order(answers, retry) ==
    IF answers[retry + 1] = "order" THEN [placed |-> TRUE, attempts |-> retry + 1]
    ELSE IF answers[retry + 1] = "transient" /\ retry < MaxRetries - 1
    THEN place_single_take_profit_order(answers, retry + 1)
    ELSE [placed |-> FALSE, attempts |-> retry + 1]

\* lines 692-707: the take-profit orders that survive the cancellation.
\* cancel: "read_failed" (get_open_orders raised), "cancel_failed" (every
\* futures_cancel_order raised), "cancelled"
cancel_existing(orders, cancel) == IF cancel = "cancelled" THEN <<>> ELSE orders
CancelOutcomes == {"cancelled", "cancel_failed", "read_failed"}

\* success when either leg was placed
plan_success_either(leg1, leg2) == leg1.placed \/ leg2.placed

\* line 720: tp1_order is not None and tp2_order is not None
plan_success(leg1, leg2) == leg1.placed /\ leg2.placed

\* an order the exchange holds: leg 1 or 2 of this call, 0 for an older order
Order(leg, quantity) == [leg |-> leg, quantity |-> quantity]

\* the result of line 738
ErrorResult == [success |-> FALSE, error |-> TRUE, tp1_order |-> FALSE, tp2_order |-> FALSE,
                has_quantities |-> FALSE, tp1_quantity |-> 0, tp2_quantity |-> 0]

\* place_dual_take_profit_orders (lines 680-738).  tpN_order: the order of
\* leg N is not None.  orders: the exchange's take-profit orders afterwards.
place_dual_take_profit_orders(a, orders, cancel, answers1, answers2) ==
    IF ~a.dataOk THEN [result |-> ErrorResult, orders |-> orders]
    ELSE
    LET q == leg_quantities(a)
        kept == cancel_existing(orders, cancel)
        leg1 == place_single_take_profit_order(answers1, 0)
        leg2 == place_single_take_profit_order(answers2, 0)
    IN  [result |-> [success |-> plan_success(leg1, leg2), error |-> FALSE,
                     tp1_order |-> leg1.placed, tp2_order |-> leg2.placed,
                     has_quantities |-> TRUE,
                     tp1_quantity |-> q.tp1, tp2_quantity |-> q.tp2],
         orders |-> kept \o (IF leg1.placed THEN <<Order(1, q.tp1)>> ELSE <<>>)
                        \o (IF leg2.placed THEN <<Order(2, q.tp2)>> ELSE <<>>)]

\* the arguments a call can meet.  dataOk: dual_tp_data holds its four keys.
TakeProfitArgs == [quantity : TpQuantities, tp1SizePct : SizePcts, tp2SizePct : SizePcts,
                   precision : QtyPrecisions, infoOk : BOOLEAN, dataOk : BOOLEAN]
NoTakeProfitArgs == [quantity |-> 1000, tp1SizePct |-> 50, tp2SizePct |-> 100,
                     precision |-> 3, infoOk |-> TRUE, dataOk |-> TRUE]
NoResult == [ErrorResult EXCEPT !.error = FALSE]

\* a stale take-profit order of an earlier plan may be open
InitTakeProfit ==
    /\ tpArgs \in TakeProfitArgs
    /\ tpOrders \in {<<>>, <<Order(0, TpScale)>>}
    /\ tpResult = NoResult
    /\ tpPc = "call"

IdleTakeProfit ==
    tpArgs = NoTakeProfitArgs /\ tpOrders = <<>> /\ tpResult = NoResult /\ tpPc = "call"

\* One call of BinanceClient.place_dual_take_profit_orders.
PlaceDualTakeProfit ==
    /\ mode = "takeprofit"
    /\ tpPc = "call"
    /\ \E cancel \in CancelOutcomes, answers1 \in AnswerLists, answers2 \in AnswerLists :
          LET r == place_dual_take_profit_orders(tpArgs, tpOrders, cancel, answers1, answers2)
          IN  /\ tpResult' = r.result
              /\ tpOrders' = r.orders
    /\ tpPc' = "done"
    /\ UNCHANGED <<mode, tpArgs, szVars, tsVars, sgVars, pdVars, clientVars>>

(***************************************************************************)
(*                  OVERLAPPING TRAILING-STOP EVALUATIONS                  *)
(***************************************************************************)

\* Two evaluations of the same position run without a lock: each calls
\* adjust_stop_loss_for_trailing, then place_stop_loss_order with the stop it
\* got.  The position, the configuration and the exchange's stop orders are
\* tsPosition, tsConfig and tsOrders.
Evaluations == {1, 2}

NoLocal == [price |-> 0, current_stop |-> 0, value |-> 0, readAt |-> 0]
Placed(stop, by, readAt) == [stop |-> stop, by |-> by, readAt |-> readAt]

InitOverlap ==
    /\ ovPc = [t \in Evaluations |-> "idle"]
    /\ ovLocal = [t \in Evaluations |-> NoLocal]
    /\ ovPlaced = [i \in 1..Len(tsOrders) |-> Placed(tsOrders[i], 0, 0)]

IdleOverlap ==
    /\ ovPc = [t \in Evaluations |-> "idle"]
    /\ ovLocal = [t \in Evaluations |-> NoLocal]
    /\ ovPlaced = <<>>

\* Evaluation t calls adjust_stop_loss_for_trailing: it reads the open stop
\* and computes its candidate.  readAt: how many stops had been opened when
\* it read.
OverlapEvaluate(t) ==
    /\ mode = "overlap"
    /\ ovPc[t] = "idle"
    /\ \E p \in TrailPrices, e \in Answers :
          \E r \in {adjust_stop_loss_for_trailing(tsPosition.side, p, tsOrders, tsPosition,
                                                  tsConfig, e.posOk, e.readOk, e.infoBase,
                                                  e.infoRound)} :
              /\ ovLocal' = [ovLocal EXCEPT ![t] = [price |-> p, current_stop |-> r.current_stop,
                                                    value |-> r.value, readAt |-> Len(ovPlaced)]]
              /\ ovPc' = [ovPc EXCEPT ![t] = IF r.outcome = "stop" THEN "evaluated" ELSE "done"]
              /\ tsClean' = (tsClean /\ (e.readOk \/ ~tsConfig.trailingStop))
    /\ UNCHANGED <<mode, tsConfig, tsPosition, tsOrders, tsPc, tsCall, tsReturn, tsAccepted,
                   ovPlaced, szVars, sgVars, pdVars, tpVars, obVars, poVars>>

\* Evaluation t submits its stop with place_stop_loss_order.
OverlapPlace(t) ==
    /\ mode = "overlap"
    /\ ovPc[t] = "evaluated"
    /\ \E readOk \in BOOLEAN, cancelled \in SUBSET (1..Len(tsOrders)), created \in BOOLEAN :
          \E after \in {place_stop_loss_order(tsOrders, ovLocal[t].value, readOk, cancelled, created)} :
              /\ tsOrders' = after
              /\ tsClean' = (tsClean /\ FirstStop(after) = ovLocal[t].value)
              /\ ovPlaced' = IF created
                             THEN Append(ovPlaced, Placed(ovLocal[t].value, t, ovLocal[t].readAt))
                             ELSE ovPlaced
    /\ ovPc' = [ovPc EXCEPT ![t] = "done"]
    /\ UNCHANGED <<mode, tsConfig, tsPosition, tsPc, tsCall, tsReturn, tsAccepted, ovLocal,
                   szVars, sgVars, pdVars, tpVars, obVars, poVars>>

(***************************************************************************)
(*                 ORDER OPERATIONS OF THE EXCHANGE CLIENT                 *)
(***************************************************************************)

\* the symbol the instance trades and another symbol of the same account
Symbol == "BTCUSDT"
OtherSymbol == "ETHUSDT"
StopTypes == {"STOP_MARKET", "STOP"}
TakeProfitTypes == {"TAKE_PROFIT_MARKET", "TAKE_PROFIT"}

\* the orders that may be open when an operation is called
OpenOrderPool ==
    {[id |-> 1, symbol |-> Symbol, type |-> "STOP_MARKET"],
     [id |-> 2, symbol |-> Symbol, type |-> "STOP"],
     [id |-> 3, symbol |-> Symbol, type |-> "TAKE_PROFIT_MARKET"],
     [id |-> 4, symbol |-> Symbol, type |-> "LIMIT"],
     [id |-> 5, symbol |-> OtherSymbol, type |-> "STOP_MARKET"],
     [id |-> 6, symbol |-> OtherSymbol, type |-> "TAKE_PROFIT_MARKET"]}

\* What futures_create_order does with one request: "order", accepted and
\* answered; "lost", accepted but the answer never arrives and the request
\* ends in "Read timed out"; "transient", not accepted, with an error of the
\* retry list; "rejected", not accepted, with any other error.
CreateAnswers == {"order", "lost", "transient", "rejected"}
Retryable == {"lost", "transient"}
\* the answers to the attempts of one call; attempts that are never made
\* (after an order or a rejection) are fixed to "order"
CreateAnswerLists ==
    {l \in [1..MaxRetries -> CreateAnswers] :
        \A i \in 1..MaxRetries : l[i] \notin Retryable => \A j \in (i + 1)..MaxRetries : l[j] = "order"}

\* a retry loop that tries again after every error
create_retry_any_error(answers, retry) ==
    LET n == CHOOSE k \in 1..MaxRetries :
                 /\ answers[k] = "order" \/ k = MaxRetries
                 /\ \A j \in 1..(k - 1) : answers[j] # "order"
    IN  [order |-> answers[n] = "order", sent |-> n,
         accepted |-> Cardinality({j \in 1..n : answers[j] \in {"order", "lost"}})]

\* The retry loop of the placement operations (lines 437-476, 483-523,
\* 548-594, 619-665, 748-785): [order, sent, accepted] from attempt `retry`
\* (counted from 0) on.
RECURSIVE create_with_retry(_, _)
create_with_retry(answers, retry) ==
    LET a == answers[retry + 1]
        acc == IF a \in {"order", "lost"} THEN 1 ELSE 0
    IN  IF a = "order" THEN [order |-> TRUE, sent |-> retry + 1, accepted |-> acc]
        ELSE IF a \in Retryable /\ retry < MaxRetries - 1
        THEN LET rest == create_with_retry(answers, retry + 1)
             IN  [order |-> rest.order, sent |-> rest.sent, accepted |-> rest.accepted + acc]
        ELSE [order |-> FALSE, sent |-> retry + 1, accepted |-> acc]

\* the filter with the order type left out
is_cancelled_any_type(order, symbol, types) == order.symbol = symbol

\* the orders a pre-cancel step asks the exchange to cancel (lines 534-535,
\* 604-605, 965-966)
is_cancelled(order, symbol, types) == order.type \in types /\ order.symbol = symbol

\* futures_get_open_orders(symbol) through get_open_orders: the open orders
\* of the symbol, the empty list when the read fails
open_orders_of(book, symbol, readOk) ==
    IF readOk THEN {o \in book : o.symbol = symbol} ELSE {}

\* the ids of the orders the call asks the exchange to cancel
cancel_requests(book, symbol, types, readOk) ==
    {o.id : o \in {x \in open_orders_of(book, symbol, readOk) : is_cancelled(x, symbol, types)}}

\* the orders a placement adds: one per accepted create request
NewOrders(symbol, type, accepted) == {[id |-> 10 + k, symbol |-> symbol, type |-> type] : k \in 1..accepted}

\* place_stop_loss_order / place_take_profit_order: the pre-cancel step, then
\* the retry loop
place_protective_order(book, symbol, types, type, readOk, failing, answers) ==
    LET asked == cancel_requests(book, symbol, types, readOk)
        left == {o \in book : o.id \notin (asked \ failing)}
        made == create_with_retry(answers, 0)
    IN  [book |-> left \cup NewOrders(symbol, type, made.accepted),
         order |-> made.order, cancelled |-> Cardinality(asked \ failing),
         sent |-> SubSeq(answers, 1, made.sent), accepted |-> made.accepted]

\* cancel_stop_loss_orders_only (lines 950-980)
cancel_stop_loss_orders_only(book, symbol, readOk, failing) ==
    LET asked == cancel_requests(book, symbol, StopTypes, readOk)
    IN  [book |-> {o \in book : o.id \notin (asked \ failing)},
         order |-> FALSE, cancelled |-> Cardinality(asked \ failing),
         sent |-> <<>>, accepted |-> 0]

\* place_market_order, place_limit_order, _place_single_take_profit_order:
\* the retry loop alone.  A market order is filled at once and never rests
\* among the open orders.
place_order(book, symbol, type, answers) ==
    LET made == create_with_retry(answers, 0)
    IN  [book |-> IF type = "MARKET" THEN book
                  ELSE book \cup NewOrders(symbol, type, made.accepted),
         order |-> made.order, cancelled |-> 0,
         sent |-> SubSeq(answers, 1, made.sent), accepted |-> made.accepted]

NoReturn == [order |-> FALSE, cancelled |-> 0]

InitBook ==
    /\ obBook \in SUBSET OpenOrderPool
    /\ obBefore = obBook
    /\ obOp = "none"
    /\ obSent = <<>>
    /\ obReturn = NoReturn
    /\ obAccepted = 0

IdleBook ==
    /\ obBook = {} /\ obBefore = {} /\ obOp = "none" /\ obSent = <<>>
    /\ obReturn = NoReturn /\ obAccepted = 0

\* the call `op` ended with the outcome r
BookCall(op, r) ==
    /\ mode = "book"
    /\ obOp = "none"
    /\ obOp' = op
    /\ obBook' = r.book
    /\ obSent' = r.sent
    /\ obReturn' = [order |-> r.order, cancelled |-> r.cancelled]
    /\ obAccepted' = r.accepted
    /\ UNCHANGED <<mode, obBefore, szVars, tsVars, sgVars, pdVars, tpVars, ovVars, poVars>>

\* One call of BinanceClient.place_stop_loss_order for the symbol.
PlaceStopLossOrder ==
    \E readOk \in BOOLEAN, failing \in SUBSET {1, 2}, answers \in CreateAnswerLists :
        BookCall("place_stop_loss_order",
                 place_protective_order(obBook, Symbol, StopTypes, "STOP_MARKET",
                                        readOk, failing, answers))

\* One call of BinanceClient.place_take_profit_order for the symbol.
PlaceTakeProfitOrder ==
    \E readOk \in BOOLEAN, failing \in SUBSET {3}, answers \in CreateAnswerLists :
        BookCall("place_take_profit_order",
                 place_protective_order(obBook, Symbol, TakeProfitTypes, "TAKE_PROFIT_MARKET",
                                        readOk, failing, answers))

\* One call of BinanceClient.cancel_stop_loss_orders_only for the symbol.
CancelStopLossOrdersOnly ==
    \E readOk \in BOOLEAN, failing \in SUBSET {1, 2} :
        BookCall("cancel_stop_loss_orders_only",
                 cancel_stop_loss_orders_only(obBook, Symbol, readOk, failing))

\* One call of place_market_order, place_limit_order or
\* _place_single_take_profit_order for the symbol.
PlaceOrder ==
    \E op \in {<<"place_market_order", "MARKET">>, <<"place_limit_order", "LIMIT">>,
                <<"_place_single_take_profit_order", "TAKE_PROFIT_MARKET">>},
       answers \in CreateAnswerLists :
        BookCall(op[1], place_order(obBook, Symbol, op[2], answers))

(***************************************************************************)
(*                  RiskManager.should_open_position                       *)
(***************************************************************************)

\* config.py: MAX_OPEN_POSITIONS and MAX_POSITIONS_PER_SYMBOL (defaults)
MaxOpenPositions == 3
MaxPositionsPerSymbol == 3

\* positionAmt of the exchange's entries for the symbol (one entry in one-way
\* mode, one per position side in hedge mode, none for an unknown symbol)
PositionAmounts == {-5, 0, 5}
SymbolEntries ==
    {<<>>} \cup {<<a>> : a \in PositionAmounts}
           \cup {<<a, b>> : a \in PositionAmounts, b \in PositionAmounts}
\* how many other symbols of the account have an open position
OtherOpenPositions == {0, 2, 3}

\* BinanceClient.get_position_info followed by the test of line 161: the
\* first entry of the symbol is the one reported; None when there is no
\* entry or when the read failed after its retries.
open_position_reported(entries, infoOk) ==
    infoOk /\ Len(entries) > 0 /\ Abs(entries[1]) > 0

\* RiskManager.should_open_position
should_open_position(entries, others, infoOk, listOk, multi) ==
    LET symbol_positions == Cardinality({i \in 1..Len(entries) : entries[i] # 0})
    IN  IF open_position_reported(entries, infoOk) THEN "False"
        ELSE IF ~listOk THEN "raised"
        ELSE IF multi
        THEN IF symbol_positions >= MaxPositionsPerSymbol THEN "False" ELSE "True"
        ELSE IF symbol_positions + others >= MaxOpenPositions THEN "False" ELSE "True"

PositionCalls ==
    [entries : SymbolEntries, others : OtherOpenPositions,
     infoOk : BOOLEAN, listOk : BOOLEAN, multi : BOOLEAN]

InitPosition ==
    /\ poCall \in PositionCalls
    /\ poResult = "none"

IdlePosition ==
    /\ poCall = [entries |-> <<>>, others |-> 0, infoOk |-> TRUE, listOk |-> TRUE, multi |-> TRUE]
    /\ poResult = "none"

\* One call of should_open_position(symbol).
ShouldOpenPosition ==
    /\ mode = "position"
    /\ poResult = "none"
    /\ poResult' = should_open_position(poCall.entries, poCall.others, poCall.infoOk,
                                        poCall.listOk, poCall.multi)
    /\ UNCHANGED <<mode, poCall, szVars, tsVars, sgVars, pdVars, tpVars, ovVars, obVars>>

(***************************************************************************)
(*                          SPECIFICATIONS                                 *)
(***************************************************************************)

\* the components not exercised by a behaviour rest in these states
IdleSizing == szConfig = [leverage |-> 20, fractionPct |-> 20] /\ szArgs = NoArgs
              /\ szQuantity = 0 /\ szPath = "none"
              /\ szLoops = [probes |-> 0, roundups |-> 0]
IdleTrail == tsConfig = [useStopLoss |-> TRUE, trailingStop |-> TRUE,
                         stopLossMille |-> 8, trailingMille |-> 12]
             /\ tsPosition = [side |-> "BUY", entry |-> EntryTicks] /\ tsOrders = <<>>
             /\ tsPc = "idle" /\ tsCall = NoCall /\ tsReturn = 0 /\ tsAccepted = <<>>
             /\ tsClean = TRUE

\* the components of the exchange client not exercised by a behaviour
IdleClient == IdleOverlap /\ IdleBook /\ IdlePosition

InitSizingOnly ==
    mode = "sizing" /\ InitSizing /\ IdleTrail /\ InitSignal /\ InitPattern /\ IdleTakeProfit /\ IdleClient
InitTrailOnly ==
    mode = "trail" /\ IdleSizing /\ InitTrail /\ InitSignal /\ InitPattern /\ IdleTakeProfit /\ IdleClient
InitSignalOnly ==
    mode = "signal" /\ IdleSizing /\ IdleTrail /\ InitSignal /\ InitPattern /\ IdleTakeProfit /\ IdleClient
InitPatternOnly ==
    mode = "pattern" /\ IdleSizing /\ IdleTrail /\ InitSignal /\ InitPattern /\ IdleTakeProfit /\ IdleClient
InitReplayOnly ==
    mode = "replay" /\ IdleSizing /\ IdleTrail /\ InitSignal /\ InitPattern /\ IdleTakeProfit /\ IdleClient
InitBreakoutOnly ==
    mode = "breakout" /\ IdleSizing /\ IdleTrail /\ InitSignal /\ InitPattern /\ IdleTakeProfit /\ IdleClient
InitTrendOnly ==
    mode = "trend" /\ IdleSizing /\ IdleTrail /\ InitTrend /\ InitPattern /\ IdleTakeProfit /\ IdleClient
InitOverlapOnly ==
    /\ mode = "overlap" /\ IdleSizing /\ InitTrail /\ InitSignal /\ InitPattern /\ IdleTakeProfit
    /\ InitOverlap /\ IdleBook /\ IdlePosition
InitBookOnly ==
    /\ mode = "book" /\ IdleSizing /\ IdleTrail /\ InitSignal /\ InitPattern /\ IdleTakeProfit
    /\ IdleOverlap /\ InitBook /\ IdlePosition
InitPositionOnly ==
    /\ mode = "position" /\ IdleSizing /\ IdleTrail /\ InitSignal /\ InitPattern /\ IdleTakeProfit
    /\ IdleOverlap /\ IdleBook /\ InitPosition
InitTakeProfitOnly ==
    mode = "takeprofit" /\ IdleSizing /\ IdleTrail /\ InitSignal /\ InitPattern /\ InitTakeProfit /\ IdleClient

Init ==
    \/ InitSizingOnly \/ InitTrailOnly \/ InitSignalOnly \/ InitPatternOnly
    \/ InitTakeProfitOnly \/ InitReplayOnly \/ InitOverlapOnly
    \/ InitBreakoutOnly \/ InitTrendOnly \/ InitBookOnly
    \/ InitPositionOnly

NextSizing == CalculatePositionSize
NextTrail == AdjustStopLoss \/ PlaceStopLoss \/ NoUpdate
NextSignal == AddEvidence \/ GetSignal
NextPattern == AppendCandle \/ DetectPatterns
NextTakeProfit == PlaceDualTakeProfit
NextReplay == AddEvidence \/ GetSignal \/ NextKlines
NextBreakout == AppendBreakoutCandle \/ DetectPatterns
NextTrend == AddEvidence \/ GetSignal
NextBook == PlaceStopLossOrder \/ PlaceTakeProfitOrder \/ CancelStopLossOrdersOnly \/ PlaceOrder
NextOverlap == \E t \in Evaluations : OverlapEvaluate(t) \/ OverlapPlace(t)

Next ==
    \/ NextSizing \/ NextTrail \/ NextSignal \/ NextPattern \/ NextTakeProfit \/ NextReplay
    \/ NextOverlap \/ NextBreakout \/ NextTrend \/ NextBook \/ ShouldOpenPosition

\* the whole core
Spec == Init /\ [][Next]_vars
\* one component at a time
SpecSizing == InitSizingOnly /\ [][NextSizing]_vars
SpecTrail == InitTrailOnly /\ [][NextTrail]_vars
SpecSignal == InitSignalOnly /\ [][NextSignal]_vars
SpecPattern == InitPatternOnly /\ [][NextPattern]_vars
SpecTakeProfit == InitTakeProfitOnly /\ [][NextTakeProfit]_vars
\* one strategy instance called several times
SpecReplay == InitReplayOnly /\ [][NextReplay]_vars
\* two trailing-stop evaluations of one position, interleaved
SpecOverlap == InitOverlapOnly /\ [][NextOverlap]_vars
\* the pattern detector on windows of a trend followed by a consolidation
SpecBreakout == InitBreakoutOnly /\ [][NextBreakout]_vars
\* one call of get_signal in a trending market
SpecTrend == InitTrendOnly /\ [][NextTrend]_vars
\* one order operation of the exchange client
SpecBook == InitBookOnly /\ [][NextBook]_vars
\* one call of should_open_position
SpecPosition == InitPositionOnly /\ [][ShouldOpenPosition]_vars

(***************************************************************************)
(*                        PROPERTIES: POSITION SIZER                       *)
(***************************************************************************)

\* C1: every quantity returned by calculate_position_size keeps its margin
\* within the budget: quantity * price / leverage <= balance * fraction, the
\* case of a raw quantity below one step included.
C1_WithinBudget ==
    szPath # "none" => MarginFits(szQuantity, szArgs.price, szArgs.balance, szConfig)

\* C5: every quantity returned by calculate_position_size is 0 or a whole
\* multiple of the symbol's step size, on every return path.
C5_StepAligned ==
    szPath # "none" => szQuantity % get_step_size(szArgs.minQty) = 0

\* C10: a quantity returned on the maximal-fill path is the largest one within
\* the budget: its margin fits and the margin of one more step does not.
C10_LargestWithinBudget ==
    szPath = "maximal_fill" =>
        /\ MarginFits(szQuantity, szArgs.price, szArgs.balance, szConfig)
        /\ ~MarginFits(szQuantity + get_step_size(szArgs.minQty),
                       szArgs.price, szArgs.balance, szConfig)

\* C11: a non-zero quantity has a notional of at least min_notional; when the
\* maximal-fill quantity is below min_notional the result is 0, or the
\* smallest whole multiple of the step whose notional reaches min_notional,
\* with a margin that fits the budget.
C11_MeetsMinNotional ==
    /\ szQuantity # 0 => szQuantity * szArgs.price >= szArgs.minNotional * QtyScale
    /\ szPath \in {"min_notional", "notional_unmet"} =>
          \/ szQuantity = 0
          \/ LET step == get_step_size(szArgs.minQty)
             IN  /\ szQuantity % step = 0
                 /\ (szQuantity - step) * szArgs.price < szArgs.minNotional * QtyScale
                 /\ MarginFits(szQuantity, szArgs.price, szArgs.balance, szConfig)

\* the maximal fill of a funded account is below min_notional and the trade is
\* rejected
C11_BelowNotionalRejected ==
    /\ szPath = "notional_unmet" /\ szQuantity = 0
    /\ szArgs.balance > 0 /\ szArgs.infoOk

\* C12: a call of calculate_position_size ends: the probing loop makes at
\* most max_quantity / step iterations and the round-up loop at most
\* min_notional / (step * price) + 1, and neither is cut short by LoopCap.
C12_LoopsBounded ==
    (szPath # "none" /\ szArgs.balance > 0 /\ szArgs.infoOk) =>
        LET step == get_step_size(szArgs.minQty)
            maxNum == szArgs.balance * szConfig.fractionPct * szConfig.leverage * QtyScale
            maxDen == 100 * szArgs.price
        IN  /\ szLoops.probes <= maxNum \div (maxDen * step)
            /\ szLoops.roundups <= (szArgs.minNotional * QtyScale) \div (step * szArgs.price) + 1
            /\ szLoops.probes < LoopCap /\ szLoops.roundups < LoopCap

\* a call in which both loops iterated
C12_BothLoopsRan ==
    szPath # "none" /\ szLoops.probes >= 1 /\ szLoops.roundups >= 1

\* C13: the quantity returned by calculate_position_size never exceeds the
\* max_qty of the symbol's trading rules.
C13_WithinMaxQty ==
    szPath # "none" => szQuantity <= szArgs.maxQty

\* C14: when the balance is <= 0 or no endpoint reports it, or the symbol
\* rules are not obtained, calculate_position_size returns through one of its
\* two early returns with quantity 0.
C14_NoBalanceNoTrade ==
    (szPath # "none" /\ (szArgs.balance <= 0 \/ ~szArgs.balanceOk \/ ~szArgs.infoOk))
    => (szQuantity = 0 /\ szPath \in {"no_balance", "no_symbol_info"})

\* a funded account whose balance no endpoint reported
C14_BalanceUnavailable ==
    /\ szPath = "no_balance" /\ szQuantity = 0
    /\ ~szArgs.balanceOk /\ szArgs.balance > 0 /\ szArgs.infoOk

(***************************************************************************)
(*                        PROPERTIES: TRAILING STOP                        *)
(***************************************************************************)

\* the evaluation went as far as computing a candidate
Evaluated == tsConfig.trailingStop /\ tsCall.posOk /\ tsCall.price > 0

\* the stops in `stops` never move against a position of side `side`
Monotone(stops, side) ==
    \A i \in 1..(Len(stops) - 1) :
        IF side = "BUY" THEN stops[i] <= stops[i + 1] ELSE stops[i] >= stops[i + 1]

\* C2: while every call reads back the stop accepted before it, the accepted
\* stops of a long position never decrease and those of a short position never
\* increase; a rejected candidate returns no update and the open stop is still
\* the last accepted one.
C2_MonotoneStops ==
    /\ tsClean => Monotone(tsAccepted, tsPosition.side)
    /\ (tsPc = "returned" /\ Evaluated
        /\ CandidateRejected(tsPosition.side,
                             TrailingCandidate(tsPosition.side, tsCall.price, tsConfig),
                             tsCall.current_stop))
       => /\ tsReturn = 0
          /\ (tsClean /\ tsOrders # <<>>) => FirstStop(tsOrders) = tsAccepted[Len(tsAccepted)]

\* the documented trace: entry 100.00 long, stop 99.50, accepted 101.49 at
\* 102.00, then the candidate of 100.50 is rejected and 101.49 stays open
C2_ExampleRejected ==
    /\ tsPosition.side = "BUY" /\ tsConfig.trailingMille = 5 /\ tsClean
    /\ tsAccepted = <<9950 * SubTick, 10149 * SubTick>>
    /\ tsPc = "returned" /\ tsCall.price = 10050 /\ tsReturn = 0
    /\ tsOrders = <<10149 * SubTick>>

\* C3: a returned stop is never looser than the stop order open on the
\* exchange (lower for a long, higher for a short), whatever the open-orders
\* read gave.
C3_NotLooserThanOpenStop ==
    (tsPc = "returned" /\ tsReturn # 0 /\ FirstStop(tsOrders) > 0)
    => IF tsPosition.side = "BUY" THEN tsReturn >= FirstStop(tsOrders)
       ELSE tsReturn <= FirstStop(tsOrders)

\* C4: a returned stop, as returned after rounding, is strictly above the
\* current stop for a long and strictly below it for a short.
C4_StrictlyTighter ==
    (tsPc = "returned" /\ tsReturn # 0)
    => IF tsPosition.side = "BUY" THEN tsReturn > tsCall.current_stop
       ELSE tsReturn < tsCall.current_stop

(***************************************************************************)
(*                        PROPERTIES: SIGNAL ENGINE                        *)
(***************************************************************************)

\* an evaluation that ran to its end without a fault
CleanEvaluation == sgPc = "done" /\ sgFault.where = "none" /\ sgDf.present

\* C6: the decision is BUY exactly when buy_score >= 4 and buy_score >
\* sell_score + 1, SELL exactly when sell_score >= 4 and sell_score >
\* buy_score + 1, HOLD otherwise; equal scores give HOLD, BUY and SELL are
\* never both set, and the strength is the winning score.
C6_DecisionRule ==
    CleanEvaluation =>
        /\ sgDf.buy_signal <=> (sgDf.buy_score >= 4 /\ sgDf.buy_score > sgDf.sell_score + 1)
        /\ sgDf.sell_signal <=> (sgDf.sell_score >= 4 /\ sgDf.sell_score > sgDf.buy_score + 1)
        /\ sgDf.hold_signal <=> (~sgDf.buy_signal /\ ~sgDf.sell_signal)
        /\ ~(sgDf.buy_signal /\ sgDf.sell_signal)
        /\ sgDf.buy_score = sgDf.sell_score => sgResult = "HOLD"
        /\ sgDf.buy_signal => (sgResult = "BUY" /\ sgDf.signal_strength = sgDf.buy_score)
        /\ sgDf.sell_signal => (sgResult = "SELL" /\ sgDf.signal_strength = sgDf.sell_score)
        /\ sgDf.hold_signal => (sgResult = "HOLD" /\ sgDf.signal_strength = 0)

\* both sides reach the minimum with equal scores, and the evaluation holds
C6_TieHolds ==
    /\ CleanEvaluation
    /\ sgDf.buy_score = sgDf.sell_score /\ sgDf.buy_score >= 4
    /\ sgResult = "HOLD"

\* C7: when a fault is raised inside pattern detection or inside scoring, the
\* evaluation returns HOLD or no signal, never BUY or SELL.
C7_FaultNeverTrades ==
    (sgPc = "done" /\ sgFault.where \in {"patterns", "scoring_init", "scoring"})
    => sgResult \in {"HOLD", "None"}

\* klines that are empty, too short, or hold a record whose field count is
\* not 12
Malformed(input) ==
    \/ input.rows = 0
    \/ input.rows < MinRequired
    \/ \E w \in input.widths : w # 12

\* C8: for malformed or insufficient input get_signal does not raise and
\* yields HOLD with strength 0 and an empty reason list.
C8_MalformedYieldsHold ==
    (sgPc = "done" /\ Malformed(sgInput))
    => /\ sgResult = "HOLD"
       /\ sgDf.signal_strength = 0
       /\ sgDf.signal_reason = <<>>

\* the reversal list of a direction, its columns, and what the other four
\* conditions add to the score of that direction
ReversalList(d) == IF d = 1 THEN BullishReversal ELSE BearishReversal
ReversalNames(d) == {ReversalList(d)[i][1] : i \in 1..Len(ReversalList(d))}
OtherScore(d, row) ==
    ContinuationScore(Continuation(d, row), 1, d, row) + MomentumScore(d, row)
    + (IF DivergenceDetected(d, row) THEN 3 ELSE 0) + (IF ExpansionDetected(d, row) THEN 2 ELSE 0)
\* the reversal contribution of the evaluated row: its score less the rest
ReversalPart(d) == (IF d = 1 THEN sgDf.buy_score ELSE sgDf.sell_score) - OtherScore(d, sgRow)
ReversalBonus ==
    (IF sgRow.volumeRatio > 15 THEN 2 ELSE 0) + (IF sgRow.volatilityRatio > 12 THEN 1 ELSE 0)
ReasonSet == {sgDf.signal_reason[k] : k \in 1..Len(sgDf.signal_reason)}

\* the priority order without the doji entries: pin bar, engulfing,
\* morning / evening star, tweezer, three soldiers / crows, marubozu
OrderWithoutDoji(d) == SelectSeq(ReversalList(d), LAMBDA e : e[1] \notin SmallBodyFlags)

\* C15 as stated: when reversal flags of the order pin bar, engulfing, star,
\* tweezer, three soldiers / crows, marubozu are set, the reversal
\* contribution of that direction is the base score of the earliest of them
\* in this order, plus 2 on a volume spike, plus 1 when volatilityRatio > 1.2.
C15_PriorityWithoutDoji ==
    CleanEvaluation =>
        \A d \in {1, -1} :
            LET L == OrderWithoutDoji(d)
            IN  \A i \in 1..Len(L) :
                    (L[i][1] \in sgRow.flags /\ \A j \in 1..(i - 1) : L[j][1] \notin sgRow.flags)
                    => ReversalPart(d) = L[i][2] + ReversalBonus

\* C15, amended: in each direction at most one reversal pattern contributes:
\* the earliest set flag in the order pin bar (4), engulfing (5), morning /
\* evening star (5), dragonfly / gravestone doji (3), tweezer (4), three
\* soldiers / crows (5), marubozu (4); the contribution is its base score plus
\* 2 on a volume spike plus 1 when volatilityRatio > 1.2, it is 0 when no
\* reversal flag is set, and a BUY or SELL reports that pattern and no other
\* reversal pattern of the direction as a reason.
C15_FirstReversalOnly ==
    CleanEvaluation =>
        \A d \in {1, -1} :
            LET L == ReversalList(d)
            IN  /\ Len(L) = 7
                /\ L[4][1] \in SmallBodyFlags /\ L[4][2] = 3
                /\ (sgRow.flags \cap ReversalNames(d) = {}) => ReversalPart(d) = 0
                /\ \A i \in 1..Len(L) :
                      (L[i][1] \in sgRow.flags /\ \A j \in 1..(i - 1) : L[j][1] \notin sgRow.flags)
                      => /\ ReversalPart(d) = L[i][2] + ReversalBonus
                         /\ sgResult # "HOLD" => ReasonSet \cap ReversalNames(d) = {L[i][1]}

\* two bullish reversal flags are set, the doji ahead of the tweezer, and
\* only the doji is counted
C15_DojiBeforeTweezer ==
    /\ CleanEvaluation
    /\ {"dragonfly_doji", "tweezer_bottom"} \subseteq sgRow.flags
    /\ sgRow.flags \cap {"pin_bar_bullish", "engulfing_bullish", "morning_star"} = {}
    /\ ReversalPart(1) = 3 + ReversalBonus

\* the only evidence of the row is a bullish engulfing on a rising candle
LoneBullishEngulfing ==
    /\ CleanEvaluation
    /\ sgRow = [NeutralRow EXCEPT !.flags = {"engulfing_bullish"}, !.dir = 1]
    /\ sgDf.sell_score = 0

\* C16 as stated: a lone bullish engulfing pattern is scored buyScore = 4 and
\* yields BUY with strength 4.
C16_LoneEngulfingScoresFour ==
    LoneBullishEngulfing =>
        (sgDf.buy_score = 4 /\ sgResult = "BUY" /\ sgDf.signal_strength = 4)

\* C16, amended: a lone bullish engulfing pattern is scored buyScore = 5 and
\* yields BUY with strength 5.
C16_LoneEngulfingScoresFive ==
    LoneBullishEngulfing =>
        (sgDf.buy_score = 5 /\ sgResult = "BUY" /\ sgDf.signal_strength = 5)

\* a lone bullish engulfing pattern was evaluated and bought
C16_LoneEngulfingBuys == LoneBullishEngulfing /\ sgDf.buy_signal /\ sgResult = "BUY"

\* C24: the strength written with a BUY or SELL is on the 0 to 10 scale: at
\* least 4 and at most 10, whatever the evidence of the candle.
C24_StrengthWithinScale ==
    (CleanEvaluation /\ sgResult \in {"BUY", "SELL"}) =>
        (sgDf.signal_strength >= 4 /\ sgDf.signal_strength <= 10)

C9_InvalidCandleNoFlags ==
    pdPc = "done" =>
        \A i \in 0..(Len(pdWindow) - 1) :
            (\E j \in Max(0, i - 2)..i : ~ValidOHLC(Row(pdWindow, j))) => pdFlags[i] = {}

\* every candle of the window is well-formed
ValidWindow == \A j \in 1..Len(pdWindow) : ValidOHLC(pdWindow[j]) /\ PositivePrices(pdWindow[j])

\* the move from the candle `start` to the candle `last`, times start.c, is
\* more than 2% in direction d
MoveOver2Pct(start, last, d) == 50 * d * (last.c - start.c) > start.c

\* C22: in a window of valid candles where a move of at least 2% is followed
\* by a consolidation contracted below the flag limit (range of the five
\* candles below 50% of the move) or the pennant limit (range of candle i-1
\* below 70% of the range of candle i-5), a bullish candle i closing above
\* the highest high of the consolidation candles before it sets bullish_flag
\* (resp. bullish_pennant) at i, and a bearish candle closing below their
\* lowest low sets bearish_flag (resp. bearish_pennant).
C22_BreakoutSetsFlag ==
    (pdPc = "done" /\ ValidWindow) =>
        \A i \in 5..(Len(pdWindow) - 1), d \in {1, -1} :
            LET w == pdWindow
                c == Row(w, i)
                prev == Row(w, i - 1)
                start == IF i >= 7 THEN Row(w, i - 7) ELSE Row(w, 0)
                flag_range == HighMax(w, i - 4, i) - LowMin(w, i - 4, i)
                breaks(from) == IF d = 1 THEN c.c > c.o /\ c.c > HighMax(w, from, i - 1)
                                ELSE c.c < c.o /\ c.c < LowMin(w, from, i - 1)
            IN  /\ (/\ MoveOver2Pct(start, prev, d)
                    /\ 2 * flag_range * start.c < d * (prev.c - start.c) * prev.c
                    /\ breaks(i - 4))
                   => (IF d = 1 THEN "bullish_flag" ELSE "bearish_flag") \in pdFlags[i]
                /\ (/\ i >= 6
                    /\ MoveOver2Pct(IF i >= 9 THEN Row(w, i - 9) ELSE Row(w, 0), Row(w, Max(i - 5, 0)), d)
                    /\ 10 * range(prev) < 7 * range(Row(w, Max(i - 5, 0)))
                    /\ breaks(i - 5))
                   => (IF d = 1 THEN "bullish_pennant" ELSE "bearish_pennant") \in pdFlags[i]

\* C23: whenever three_white_soldiers (three_black_crows) is set at index i,
\* each of the candles i-2, i-1, i is bullish (bearish), closes further in the
\* trend direction than the one before, and has a body of at least 60% of its
\* own range, the first candle i-2 included.
C23_ThreeStrongBodies ==
    pdPc = "done" =>
        \A i \in 2..(Len(pdWindow) - 1) :
            LET c == Row(pdWindow, i)
                p == Row(pdWindow, i - 1)
                p2 == Row(pdWindow, i - 2)
            IN  /\ "three_white_soldiers" \in pdFlags[i] =>
                      /\ \A k \in {c, p, p2} : k.c > k.o /\ 5 * body(k) >= 3 * range(k)
                      /\ c.c > p.c /\ p.c > p2.c
                /\ "three_black_crows" \in pdFlags[i] =>
                      /\ \A k \in {c, p, p2} : k.c < k.o /\ 5 * body(k) >= 3 * range(k)
                      /\ c.c < p.c /\ p.c < p2.c

(***************************************************************************)
(*                  PROPERTIES: OVERLAPPING EVALUATIONS                    *)
(***************************************************************************)

\* stop b is looser than stop a for the position: lower for a long, higher
\* for a short
Looser(b, a) == IF tsPosition.side = "BUY" THEN b < a ELSE b > a

\* C21: no lock orders two trailing-stop evaluations of one position.  A stop
\* opened on the exchange is looser than the stop opened before it only when
\* its evaluation read the current stop before that earlier stop was opened,
\* that is, when the two evaluations overlapped (all reads and replacements
\* succeeding); C21_OverlapLowersStop is the interleaving in which this
\* happens.
C21_RegressionNeedsOverlap ==
    tsClean =>
        \A i \in 1..(Len(ovPlaced) - 1) :
            Looser(ovPlaced[i + 1].stop, ovPlaced[i].stop) => ovPlaced[i + 1].readAt < i

\* both evaluations of a long position read the same current stop, both
\* replaced it, and the stop left open is lower than the stop open before it
C21_OverlapLowersStop ==
    /\ tsPosition.side = "BUY" /\ tsClean
    /\ \A t \in Evaluations : ovPc[t] = "done" /\ ovLocal[t].readAt = 1
    /\ ovLocal[1].current_stop = ovLocal[2].current_stop
    /\ Len(ovPlaced) = 3
    /\ ovPlaced[3].stop < ovPlaced[2].stop
    /\ tsOrders = <<ovPlaced[3].stop>>

(***************************************************************************)
(*                       PROPERTIES: DUAL TAKE PROFIT                      *)
(***************************************************************************)

\* a call that computed its leg quantities with the symbol's precision
PlanComputed == tpPc = "done" /\ tpResult.has_quantities /\ tpArgs.infoOk

\* C17: with tp2SizePct >= tp1SizePct the leg quantities are
\* tp1Qty = round(quantity * tp1SizePct), tp2Qty >= 0 and
\* tp1Qty + tp2Qty = round(quantity * tp2SizePct); with tp2SizePct = 1 the two
\* legs together do not exceed the position quantity.
C17_LegsSumToRounded ==
    (PlanComputed /\ tpArgs.tp2SizePct >= tpArgs.tp1SizePct) =>
        /\ tpResult.tp1_quantity = round_half_even(tpArgs.quantity * tpArgs.tp1SizePct, tpArgs.precision)
        /\ tpResult.tp2_quantity >= 0
        /\ tpResult.tp1_quantity + tpResult.tp2_quantity
              = round_half_even(tpArgs.quantity * tpArgs.tp2SizePct, tpArgs.precision)
        /\ tpArgs.tp2SizePct = 100 =>
              tpResult.tp1_quantity + tpResult.tp2_quantity <= tpArgs.quantity * 100

\* C18: whenever the call reports success, both leg quantities are non-zero.
C18_SuccessMeansNonZeroLegs ==
    (tpPc = "done" /\ tpResult.success) =>
        (tpResult.tp1_quantity # 0 /\ tpResult.tp2_quantity # 0)

\* the legs of this call for which the exchange holds an order
PlacedLegs == {tpOrders[i].leg : i \in 1..Len(tpOrders)} \ {0}
PlacedQuantity(leg) ==
    LET i == CHOOSE k \in 1..Len(tpOrders) : tpOrders[k].leg = leg
    IN  tpOrders[i].quantity

StopsOf(book) == {o \in book : o.type \in StopTypes /\ o.symbol = Symbol}
\* the orders a stop-loss cancellation must leave alone
NotStopsOf(book) == book \ StopsOf(book)

\* C25: after place_stop_loss_order returns an order, exactly one STOP or
\* STOP_MARKET order is open for the symbol, and every stop order that was
\* open before the call has been cancelled.
C25_ExactlyOneStopAfterPlacement ==
    (obOp = "place_stop_loss_order" /\ obReturn.order) =>
        /\ Cardinality(StopsOf(obBook)) = 1
        /\ StopsOf(obBefore) \cap obBook = {}

\* C26: if a stop order is open for the symbol when place_stop_loss_order
\* is called, a stop order is open for the symbol when it returns.
C26_StopNeverLost ==
    (obOp = "place_stop_loss_order" /\ StopsOf(obBefore) # {}) => StopsOf(obBook) # {}

\* C27: cancel_stop_loss_orders_only and the pre-cancel step of
\* place_stop_loss_order cancel only STOP and STOP_MARKET orders of the given
\* symbol: take-profit orders, other orders of the symbol and the orders of
\* other symbols are open after the call exactly as before it.
C27_OnlyStopsCancelled ==
    obOp \in {"cancel_stop_loss_orders_only", "place_stop_loss_order"} =>
        NotStopsOf(obBook) = NotStopsOf(obBefore)

\* both stops of the symbol were cancelled, with a take-profit order, a limit
\* order and another symbol's stop open before and after
C27_StopsGoneOthersKept ==
    /\ obOp = "cancel_stop_loss_orders_only"
    /\ obBefore = OpenOrderPool
    /\ obReturn.cancelled = 2
    /\ obBook = NotStopsOf(OpenOrderPool)

\* C29: one call of place_market_order results in at most one market order
\* accepted by the exchange.
C29_AtMostOneMarketOrder ==
    obOp = "place_market_order" => obAccepted <= 1

PlacementOps ==
    {"place_market_order", "place_limit_order", "place_stop_loss_order",
     "place_take_profit_order", "_place_single_take_profit_order"}

\* C30: each placement operation sends at most 3 create-order requests,
\* sends another one only after a retryable error, and returns None as soon
\* as a non-retryable error occurs or the third attempt fails.
C30_BoundedRetries ==
    obOp \in PlacementOps =>
        /\ Len(obSent) \in 1..3
        /\ \A i \in 1..(Len(obSent) - 1) : obSent[i] \in Retryable
        /\ obReturn.order <=> obSent[Len(obSent)] = "order"
        /\ ~obReturn.order => (obSent[Len(obSent)] = "rejected" \/ Len(obSent) = 3)

\* a retryable error, then a non-retryable one: two requests and None
C30_RejectedOnSecondAttempt ==
    /\ obOp = "place_stop_loss_order"
    /\ obSent = <<"transient", "rejected">>
    /\ ~obReturn.order

(***************************************************************************)
(*                  PROPERTIES: should_open_position                       *)
(***************************************************************************)

\* C28: should_open_position(symbol) never returns True while the exchange
\* holds a non-zero position for that symbol, whatever the outcome of the
\* position read and however many entries the exchange lists for the symbol.
C28_NoSecondPosition ==
    poResult = "True" => \A i \in 1..Len(poCall.entries) : poCall.entries[i] = 0

====
